---- MODULE Spec2Model ----
(***************************************************************************)
(* A model of the shopping-list engine of the DDM grocery list system:     *)
(* ingredient-line parsing, name normalisation, unit conversion and the    *)
(* two aggregators (compile_shopping_list and ShoppingList).               *)
(*                                                                         *)
(* Python strings are modelled as sequences of one-character strings, so   *)
(* that split, strip, lower, replace and endswith are computed character   *)
(* by character as the code computes them.  Python floats are modelled as  *)
(* integers counting ten-thousandths (Scale), which is exact for the       *)
(* decimal literals of at most four fractional digits used here and keeps  *)
(* round(x, 3) and round(x, 2) from being the identity.                    *)
(***************************************************************************)
EXTENDS Integers, Sequences, FiniteSets, TLC

\* ------------------------------------------------------------------------
\* Bounds of the model
\* ------------------------------------------------------------------------

\* recipes in one recipe_list handed to compile_shopping_list
MaxRecipes == 2
\* ingredient lines in one recipe_list, over all its recipes
MaxLines == 3
\* calls made on one ShoppingList object, or on one RecipeBook object
MaxOps == 3
\* tokens in one generated ingredient line
MaxTokens == 3
\* the largest quantity handed to convert_units, in quarters
MaxQuarters == 40
\* items in a shopping list handed to the export and store functions
MaxItems == 2
\* store names handed to compare_store_totals
MaxStores == 2
\* shopping lists created in one session of the command line program
MaxLists == 6

\* one unit of quantity is 1/Scale: 2.0 is 20000, 0.0004 is 4
Scale == 10000

\* ------------------------------------------------------------------------
\* Python str primitives on sequences of characters
\* ------------------------------------------------------------------------

WhiteSpace == {" ", "\t"}

Digits == {"0", "1", "2", "3", "4", "5", "6", "7", "8", "9"}

DigitVal ==
    ("0" :> 0) @@ ("1" :> 1) @@ ("2" :> 2) @@ ("3" :> 3) @@ ("4" :> 4) @@
    ("5" :> 5) @@ ("6" :> 6) @@ ("7" :> 7) @@ ("8" :> 8) @@ ("9" :> 9)

UpperToLower ==
    ("A" :> "a") @@ ("B" :> "b") @@ ("C" :> "c") @@ ("D" :> "d") @@
    ("E" :> "e") @@ ("F" :> "f") @@ ("G" :> "g") @@ ("H" :> "h") @@
    ("I" :> "i") @@ ("J" :> "j") @@ ("K" :> "k") @@ ("L" :> "l") @@
    ("M" :> "m") @@ ("N" :> "n") @@ ("O" :> "o") @@ ("P" :> "p") @@
    ("Q" :> "q") @@ ("R" :> "r") @@ ("S" :> "s") @@ ("T" :> "t") @@
    ("U" :> "u") @@ ("V" :> "v") @@ ("W" :> "w") @@ ("X" :> "x") @@
    ("Y" :> "y") @@ ("Z" :> "z")

\* str.lower()
Lower(s) ==
    [i \in 1..Len(s) |->
        IF s[i] \in DOMAIN UpperToLower THEN UpperToLower[s[i]] ELSE s[i]]

RECURSIVE LStrip(_)
LStrip(s) ==
    IF s # <<>> /\ Head(s) \in WhiteSpace THEN LStrip(Tail(s)) ELSE s

RECURSIVE RStrip(_)
RStrip(s) ==
    IF s # <<>> /\ s[Len(s)] \in WhiteSpace
    THEN RStrip(SubSeq(s, 1, Len(s) - 1))
    ELSE s

\* str.strip()
Strip(s) == RStrip(LStrip(s))

\* str.split(): the maximal runs of non-whitespace characters, in order
RECURSIVE SplitFrom(_, _, _)
SplitFrom(s, cur, acc) ==
    IF s = <<>>
    THEN IF cur = <<>> THEN acc ELSE Append(acc, cur)
    ELSE IF Head(s) \in WhiteSpace
         THEN SplitFrom(Tail(s), <<>>, IF cur = <<>> THEN acc ELSE Append(acc, cur))
         ELSE SplitFrom(Tail(s), Append(cur, Head(s)), acc)

Split(s) == SplitFrom(s, <<>>, <<>>)

\* " ".join(parts)
RECURSIVE Join(_)
Join(parts) ==
    IF parts = <<>> THEN <<>>
    ELSE IF Len(parts) = 1 THEN parts[1]
    ELSE parts[1] \o <<" ">> \o Join(Tail(parts))

\* w in s (w is not empty)
Contains(s, w) ==
    \E i \in 1..(Len(s) - Len(w) + 1) : SubSeq(s, i, i + Len(w) - 1) = w

\* s.replace(w, ""): every occurrence of w, found left to right without
\* overlap, is removed in one pass
RECURSIVE Remove(_, _)
Remove(s, w) ==
    IF Len(s) < Len(w) THEN s
    ELSE IF SubSeq(s, 1, Len(w)) = w
         THEN Remove(SubSeq(s, Len(w) + 1, Len(s)), w)
         ELSE <<Head(s)>> \o Remove(Tail(s), w)

\* s.endswith(w)
EndsWith(s, w) ==
    Len(s) >= Len(w) /\ SubSeq(s, Len(s) - Len(w) + 1, Len(s)) = w

\* ------------------------------------------------------------------------
\* float(token) on decimal literals
\* ------------------------------------------------------------------------

Unsigned(t) == IF t # <<>> /\ t[1] \in {"+", "-"} THEN Tail(t) ELSE t

DotCount(t) == Cardinality({i \in 1..Len(t) : t[i] = "."})

\* float(t) succeeds: an optional sign, digits with at most one point and at
\* least one digit.  (Exponents, inf, nan and underscores, which float also
\* accepts, are outside the model's input alphabet.)
IsFloat(t) ==
    LET u == Unsigned(t) IN
        /\ u # <<>>
        /\ \A i \in 1..Len(u) : u[i] \in Digits \cup {"."}
        /\ DotCount(u) <= 1
        /\ \E i \in 1..Len(u) : u[i] \in Digits

RECURSIVE DigitsValue(_)
DigitsValue(ds) ==
    IF ds = <<>> THEN 0
    ELSE 10 * DigitsValue(SubSeq(ds, 1, Len(ds) - 1)) + DigitVal[ds[Len(ds)]]

\* the value of float(t) in units of 1/Scale, for t with IsFloat(t) and at
\* most four fractional digits
FloatOf(t) ==
    LET u    == Unsigned(t)
        dot  == IF DotCount(u) = 0 THEN Len(u) + 1
                ELSE CHOOSE i \in 1..Len(u) : u[i] = "."
        int  == SubSeq(u, 1, dot - 1)
        frac == SubSeq(u, dot + 1, Len(u))
        pad  == SubSeq(frac \o <<"0", "0", "0", "0">>, 1, 4)
        mag  == DigitsValue(int) * Scale + DigitsValue(pad)
    IN IF t[1] = "-" THEN 0 - mag ELSE mag

\* n/d rounded to the nearest multiple of step, ties to the even multiple
\* (d > 0): Python's round(x, ndigits) on a value that is exactly
\* representable
RoundDiv(n, d, step) ==
    LET den == d * step
        q   == n \div den
        r   == n % den
    IN IF 2 * r < den THEN q * step
       ELSE IF 2 * r > den THEN (q + 1) * step
       ELSE IF q % 2 = 0 THEN q * step ELSE (q + 1) * step

\* round(x, 3)
Round3(x) == RoundDiv(x, 1, Scale \div 1000)

\* n/d cut to 2 decimals instead of rounded
Round2Div_Floor(n, d) == (n \div (d * (Scale \div 100))) * (Scale \div 100)

\* round(x, 2)
Round2Div(n, d) == RoundDiv(n, d, Scale \div 100)

\* ------------------------------------------------------------------------
\* ingredient_processor.py
\* ------------------------------------------------------------------------

\* the default unit 'each'
each == <<"e", "a", "c", "h">>

\* None (no preparation) is the empty sequence; every preparation word is
\* non-empty
None == <<>>

prep_words == <<
    <<"d", "i", "c", "e", "d">>,
    <<"c", "h", "o", "p", "p", "e", "d">>,
    <<"m", "i", "n", "c", "e", "d">>,
    <<"s", "l", "i", "c", "e", "d">> >>

\* the item after the preparation scan: the first word of prep_words (in
\* table order) that occurs in item.lower() is removed from it everywhere
RECURSIVE StripPreparation(_, _)
StripPreparation(item, i) ==
    IF i > Len(prep_words) THEN [item |-> item, preparation |-> None]
    ELSE IF Contains(Lower(item), prep_words[i])
         THEN [item |-> Strip(Remove(Lower(item), prep_words[i])),
               preparation |-> prep_words[i]]
         ELSE StripPreparation(item, i + 1)

\* ParseTokens with the unit kept as written instead of lowercased
ParseTokens_UnitAsWritten(ingredient_string) ==
    LET parts == Split(Strip(ingredient_string)) IN
        IF Len(parts) > 0 /\ IsFloat(parts[1])
        THEN IF Len(parts) >= 3
             THEN [quantity |-> FloatOf(parts[1]),
                   unit |-> parts[2],
                   item |-> Join(SubSeq(parts, 3, Len(parts)))]
             ELSE IF Len(parts) = 2
             THEN [quantity |-> FloatOf(parts[1]),
                   unit |-> each,
                   item |-> parts[2]]
             ELSE [quantity |-> FloatOf(parts[1]),
                   unit |-> each,
                   item |-> ingredient_string]
        ELSE [quantity |-> 1 * Scale,
              unit |-> each,
              item |-> ingredient_string]

\* quantity, unit and item as read from the tokens, before the preparation
\* scan
ParseTokens(ingredient_string) ==
    LET parts == Split(Strip(ingredient_string)) IN
        IF Len(parts) > 0 /\ IsFloat(parts[1])
        THEN IF Len(parts) >= 3
             THEN [quantity |-> FloatOf(parts[1]),
                   unit |-> Lower(parts[2]),
                   item |-> Join(SubSeq(parts, 3, Len(parts)))]
             ELSE IF Len(parts) = 2
             THEN [quantity |-> FloatOf(parts[1]),
                   unit |-> each,
                   item |-> parts[2]]
             ELSE [quantity |-> FloatOf(parts[1]),
                   unit |-> each,
                   item |-> ingredient_string]
        ELSE [quantity |-> 1 * Scale,
              unit |-> each,
              item |-> ingredient_string]

parse_ingredient_line(ingredient_string) ==
    IF ingredient_string = <<>>
    THEN [quantity |-> 0, unit |-> each, item |-> <<>>, preparation |-> None]
    ELSE LET tok  == ParseTokens(ingredient_string)
             prep == StripPreparation(tok.item, 1)
         IN [quantity |-> tok.quantity,
             unit |-> tok.unit,
             item |-> Strip(Lower(prep.item)),
             preparation |-> prep.preparation]

remove_words == <<
    <<"f", "r", "e", "s", "h">>,
    <<"o", "r", "g", "a", "n", "i", "c">>,
    <<"r", "i", "p", "e">>,
    <<"k", "o", "s", "h", "e", "r">>,
    <<"s", "e", "a">>,
    <<"e", "x", "t", "r", "a">>,
    <<"v", "i", "r", "g", "i", "n">>,
    <<"r", "a", "w">>,
    <<"w", "h", "o", "l", "e">> >>

synonyms ==
    (<<"g", "r", "e", "e", "n", " ", "o", "n", "i", "o", "n">>
        :> <<"s", "c", "a", "l", "l", "i", "o", "n">>) @@
    (<<"s", "p", "r", "i", "n", "g", " ", "o", "n", "i", "o", "n">>
        :> <<"s", "c", "a", "l", "l", "i", "o", "n">>) @@
    (<<"c", "i", "l", "a", "n", "t", "r", "o">>
        :> <<"c", "o", "r", "i", "a", "n", "d", "e", "r">>) @@
    (<<"r", "o", "m", "a", " ", "t", "o", "m", "a", "t", "o">>
        :> <<"t", "o", "m", "a", "t", "o">>) @@
    (<<"p", "l", "u", "m", " ", "t", "o", "m", "a", "t", "o">>
        :> <<"t", "o", "m", "a", "t", "o">>)

RECURSIVE RemoveWords(_, _)
RemoveWords(name, i) ==
    IF i > Len(remove_words) THEN name
    ELSE RemoveWords(Remove(name, remove_words[i]), i + 1)

\* "very naive plural fixer"
DropPlural(name) ==
    IF Len(name) > 3 /\ EndsWith(name, <<"s">>)
    THEN SubSeq(name, 1, Len(name) - 1)
    ELSE name

ApplySynonyms(name) ==
    IF name \in DOMAIN synonyms THEN synonyms[name] ELSE name

normalize_ingredient_name(raw_ingredient) ==
    IF Strip(raw_ingredient) = <<>> THEN <<>>
    ELSE LET lowered   == Lower(Strip(raw_ingredient))
             collapsed == Join(Split(RemoveWords(lowered, 1)))
         IN Strip(DropPlural(ApplySynonyms(collapsed)))

\* volume_to_tbsp, in thirds of a tablespoon (tsp is 1/3)
volume_to_tbsp ==
    (<<"c", "u", "p">> :> 48) @@ (<<"c", "u", "p", "s">> :> 48) @@
    (<<"t", "b", "s", "p">> :> 3) @@
    (<<"t", "a", "b", "l", "e", "s", "p", "o", "o", "n">> :> 3) @@
    (<<"t", "s", "p">> :> 1) @@
    (<<"t", "e", "a", "s", "p", "o", "o", "n">> :> 1)

weight_to_oz ==
    (<<"l", "b">> :> 16) @@ (<<"p", "o", "u", "n", "d">> :> 16) @@
    (<<"o", "z">> :> 1) @@ (<<"o", "u", "n", "c", "e">> :> 1)

\* convert_units rounding the quantity it passes through
convert_units_RoundedPassthrough(quantity, from_unit, to_unit) ==
    LET f == Lower(from_unit)
        t == Lower(to_unit)
    IN IF f \in DOMAIN volume_to_tbsp /\ t \in DOMAIN volume_to_tbsp
       THEN Round2Div(quantity * volume_to_tbsp[f], volume_to_tbsp[t])
       ELSE IF f \in DOMAIN weight_to_oz /\ t \in DOMAIN weight_to_oz
       THEN Round2Div(quantity * weight_to_oz[f], weight_to_oz[t])
       ELSE Round2Div(quantity, 1)

convert_units(quantity, from_unit, to_unit) ==
    LET f == Lower(from_unit)
        t == Lower(to_unit)
    IN IF f = t THEN quantity
       ELSE IF f \in DOMAIN volume_to_tbsp /\ t \in DOMAIN volume_to_tbsp
       THEN Round2Div(quantity * volume_to_tbsp[f], volume_to_tbsp[t])
       ELSE IF f \in DOMAIN weight_to_oz /\ t \in DOMAIN weight_to_oz
       THEN Round2Div(quantity * weight_to_oz[f], weight_to_oz[t])
       ELSE quantity

\* ------------------------------------------------------------------------
\* State
\* ------------------------------------------------------------------------

VARIABLES
    client,             \* which part of the library this behaviour drives
    recipe_list,        \* compile_shopping_list: the recipe_list argument
    num_servings_dict,  \* compile_shopping_list: the num_servings_dict argument
    shopping,           \* compile_shopping_list: the local dict shopping
    ri,                 \* compile_shopping_list: position in recipe_list
    ii,                 \* compile_shopping_list: position in the recipe's ingredients
    pc,                 \* compile_shopping_list: "call", "loop", "done", "raised"
    exc,                \* the exception the last call raised, or "none"
    items,              \* ShoppingList._items
    recipes,            \* ShoppingList._recipes
    calls,              \* history: the calls made on the ShoppingList that returned
    result,             \* the value the last ShoppingList call returned
    text,               \* the string handed to the parser or the normalizer
    parsed,             \* the dict parse_ingredient_line returned
    name1,              \* the name normalize_ingredient_name returned
    name2,              \* that name, normalized once more
    tpc,                \* "start", "parsed", "named", "renamed"
    amount,             \* convert_units: the quantity argument
    unit_a,             \* convert_units: the from_unit argument
    unit_b,             \* convert_units: the to_unit argument
    there,              \* convert_units(amount, unit_a, unit_b)
    back,               \* convert_units(there, unit_b, unit_a)
    cpc,                \* "start", "converted", "returned"
    shopping_list,      \* the shopping_list argument of the export and store functions
    categorized,        \* group_items_by_category: the local dict categorized
    ci,                 \* group_items_by_category: position in shopping_list
    grouped,            \* group_items_by_category: the dict returned
    kpc,                \* group_items_by_category: "call", "loop", "done"
    store_inventory,    \* the store_inventory argument of the store functions
    wanted,             \* find_item_price: the item_name argument
    found,              \* find_item_price: the value returned
    priced,             \* calculate_shopping_list_total: the dict returned
    files,              \* data/mock_stores: the inventory file of each store
    store_list,         \* compare_store_totals: the store_list argument
    comparison,         \* compare_store_totals: the local dict comparison
    si,                 \* compare_store_totals: position in store_list
    ranking,            \* compare_store_totals: the dict returned
    spc,                \* the store functions: "call", "loop", "done", "raised"
    book_recipes,       \* RecipeBook: self.recipes
    book_file,          \* RecipeBook: the recipes in the file at self.filepath
    book_op,            \* RecipeBook: the method called last
    book_arg,           \* RecipeBook: the argument of that call
    book_exc,           \* RecipeBook: the exception it raised, or "none"
    book_calls,         \* RecipeBook: calls made so far, the clock's reading
    book_ret,           \* RecipeBook: the value the last call returned
    handle,             \* the dict get_recipe handed to the caller
    book_before,        \* self.recipes when that dict was handed out
    store_objects,      \* Store._inventory of each store object, or None
    store_comparisons,  \* ShoppingList._store_comparisons
    stores,             \* ShoppingList.compare_stores: the stores argument
    cmp_op,             \* the ShoppingList store method called last
    cmp_ret,            \* the value that call returned
    current_shopping_list, \* CornucopiaApp.current_shopping_list
    shopping_history,   \* CornucopiaApp.shopping_history
    clock,              \* the reading of datetime.now()
    used                \* the list the last comparison or export was given

vars == <<client, recipe_list, num_servings_dict, shopping, ri, ii, pc, exc,
          items, recipes, calls, result, text, parsed, name1, name2, tpc,
          amount, unit_a, unit_b, there, back, cpc,
          shopping_list, categorized, ci, grouped, kpc,
          store_inventory, wanted, found, priced, files, store_list,
          comparison, si, ranking, spc,
          book_recipes, book_file, book_op, book_arg, book_exc, book_calls,
          book_ret, handle, book_before,
          store_objects, store_comparisons, stores, cmp_op, cmp_ret,
          current_shopping_list, shopping_history, clock, used>>

compileVars == <<recipe_list, num_servings_dict, shopping, ri, ii, pc>>

listVars == <<items, recipes, calls, result>>

textVars == <<text, parsed, name1, name2, tpc>>

aggVars == <<client, recipe_list, num_servings_dict, shopping, ri, ii, pc, exc,
             items, recipes, calls, result>>

convVars == <<amount, unit_a, unit_b, there, back, cpc>>

catVars == <<categorized, ci, grouped, kpc>>

storeVars == <<store_inventory, wanted, found, priced, files, store_list,
               comparison, si, ranking, spc>>

bookVars == <<book_recipes, book_file, book_op, book_arg, book_exc,
              book_calls, book_ret, handle, book_before>>

cmpVars == <<store_objects, store_comparisons, stores, cmp_op, cmp_ret>>

cliVars == <<current_shopping_list, shopping_history, clock, used>>

\* what the actions of one part of the library leave alone
notAggVars == <<textVars, convVars, shopping_list, catVars, storeVars,
                bookVars,
                cmpVars, cliVars>>

notTextVars == <<aggVars, convVars, shopping_list, catVars, storeVars,
                 bookVars,
                cmpVars, cliVars>>

notConvVars == <<aggVars, textVars, shopping_list, catVars, storeVars,
                 bookVars,
                cmpVars, cliVars>>

notCatVars == <<aggVars, textVars, convVars, shopping_list, storeVars,
                bookVars,
                cmpVars, cliVars>>

notStoreVars == <<aggVars, textVars, convVars, shopping_list, catVars,
                  bookVars,
                cmpVars, cliVars>>

notBookVars == <<aggVars, textVars, convVars, shopping_list, catVars,
                 storeVars,
                cmpVars, cliVars>>

\* ------------------------------------------------------------------------
\* Inputs
\* ------------------------------------------------------------------------

Pasta == <<"P", "a", "s", "t", "a">>

Salad == <<"S", "a", "l", "a", "d">>

RecipeNames == {Pasta, Salad}

\* ingredient lines: one item in two convertible units, once with a
\* quantity of four decimals, and the same item spelled another way
Lines == {
    <<"2", " ", "c", "u", "p", "s", " ", "t", "o", "m", "a", "t", "o">>,
    <<"0", ".", "0", "0", "0", "4", " ", "t", "b", "s", "p", " ", "t", "o", "m", "a", "t", "o">>,
    <<"1", " ", "l", "b", " ", "F", "r", "e", "s", "h", " ", "T", "o", "m", "a", "t", "o", "e", "s">> }

\* a value of the expected type, or a value of another type
List(v) == [kind |-> "list", val |-> v]

Dict(v) == [kind |-> "dict", val |-> v]

Other == [kind |-> "other", val |-> <<>>]

\* the recipes of exactly j ingredient lines: a list of j lines for j > 0,
\* an 'ingredients' field that is not a list for j = 0
RecipesWith(j) ==
    [name : RecipeNames,
     ingredients : IF j = 0 THEN {Other}
                   ELSE {List(v) : v \in [1..j -> Lines]}]

\* the lists of exactly k recipes that hold at most n ingredient lines in all
RECURSIVE RecipeListsOf(_, _)
RecipeListsOf(k, n) ==
    IF k = 0 THEN {<<>>}
    ELSE UNION {{<<r>> \o rest : r \in RecipesWith(j),
                                 rest \in RecipeListsOf(k - 1, n - j)} :
                j \in 0..n}

RecipeLists ==
    {List(v) : v \in UNION {RecipeListsOf(k, MaxLines) : k \in 0..MaxRecipes}}
        \cup {Other}

\* servings multipliers are whole numbers; a recipe name (here Salad) may be
\* absent
ServingsDicts == {Dict(Pasta :> 2), Other}

\* ------------------------------------------------------------------------
\* shopping_list.py: compile_shopping_list
\* ------------------------------------------------------------------------

\* x in seq
InSeq(x, seq) == \E i \in 1..Len(seq) : seq[i] = x

\* the position of the entry whose key is item in a dict kept as the
\* sequence of its entries in insertion order; 0 when the key is absent
IndexOf(entries, item) ==
    IF \E i \in 1..Len(entries) : entries[i].item = item
    THEN CHOOSE i \in 1..Len(entries) : entries[i].item = item
    ELSE 0

Keys(entries) == {entries[i].item : i \in 1..Len(entries)}

_simple_parse(line) ==
    IF line = <<>>
    THEN [quantity |-> 1 * Scale, unit |-> each,
          item |-> <<"u", "n", "k", "n", "o", "w", "n">>]
    ELSE LET parts == Split(Strip(line)) IN
        IF Len(parts) >= 3 /\ IsFloat(parts[1])
        THEN [quantity |-> FloatOf(parts[1]),
              unit |-> Lower(parts[2]),
              item |-> Lower(Strip(Join(SubSeq(parts, 3, Len(parts)))))]
        ELSE IF Len(parts) >= 2 /\ IsFloat(parts[1])
        THEN [quantity |-> FloatOf(parts[1]),
              unit |-> each,
              item |-> Lower(Strip(Join(SubSeq(parts, 2, Len(parts)))))]
        ELSE [quantity |-> 1 * Scale,
              unit |-> each,
              item |-> Lower(Join(parts))]

\* float(num_servings_dict.get(name, 1.0))
ServingsFor(servings_dict, name) ==
    IF name \in DOMAIN servings_dict THEN servings_dict[name] ELSE 1

\* mutant of ScaledQty: the servings multiplier is left out
ScaledQty_Unscaled(qty, servings) == qty

\* scaled_qty = qty * servings
ScaledQty(qty, servings) == qty * servings

\* mutant of TrackRecipe: the name is appended without the membership test
TrackRecipe_Always(entry_recipes, name) == Append(entry_recipes, name)

\* if name not in entry["recipes"]: entry["recipes"].append(name)
TrackRecipe(entry_recipes, name) ==
    IF InSeq(name, entry_recipes) THEN entry_recipes
    ELSE Append(entry_recipes, name)

\* mutant of CompileMerge: a later contribution overwrites the stored unit
CompileMerge_LastUnit(shop, item, unit, scaled_qty, name) ==
    LET i == IndexOf(shop, item) IN
        IF i # 0
        THEN [shop EXCEPT ![i] =
                [item     |-> shop[i].item,
                 quantity |-> shop[i].quantity + scaled_qty,
                 unit     |-> unit,
                 recipes  |-> TrackRecipe(shop[i].recipes, name),
                 notes    |-> shop[i].notes]]
        ELSE Append(shop, [item     |-> item,
                           quantity |-> scaled_qty,
                           unit     |-> unit,
                           recipes  |-> <<name>>,
                           notes    |-> <<>>])

\* the body of the loop over the ingredients: shopping after one parsed,
\* scaled ingredient of recipe name has been merged into it.  A note is
\* the pair of units the appended text names ("unit mismatch kept as
\* '<kept>', saw '<saw>'"); no notes is the empty sequence.
CompileMerge(shop, item, unit, scaled_qty, name) ==
    LET i == IndexOf(shop, item) IN
        IF i # 0
        THEN [shop EXCEPT ![i] =
                [item     |-> shop[i].item,
                 quantity |-> shop[i].quantity + scaled_qty,
                 unit     |-> shop[i].unit,
                 recipes  |-> TrackRecipe(shop[i].recipes, name),
                 notes    |-> IF shop[i].unit = unit THEN shop[i].notes
                              ELSE Append(shop[i].notes,
                                          [kept |-> shop[i].unit, saw |-> unit])]]
        ELSE Append(shop, [item     |-> item,
                           quantity |-> scaled_qty,
                           unit     |-> unit,
                           recipes  |-> <<name>>,
                           notes    |-> <<>>])

\* the final pass: v["quantity"] = round(float(v["quantity"]), 3)
RoundAll(shop) ==
    [i \in 1..Len(shop) |-> [shop[i] EXCEPT !.quantity = Round3(@)]]

\* mutant of ArgumentsValid: the servings mapping is not checked
ArgumentsValid_ListOnly(rl, sd) == rl.kind = "list"

\* the isinstance checks on the two arguments
ArgumentsValid(rl, sd) == rl.kind = "list" /\ sd.kind = "dict"

\* lines 53-56 and 94: the arguments are checked; a TypeError ends the call
compile_enter ==
    /\ client = "compile"
    /\ pc = "call"
    /\ IF ArgumentsValid(recipe_list, num_servings_dict)
       THEN /\ pc' = "loop"
            /\ exc' = "none"
       ELSE /\ pc' = "raised"
            /\ exc' = "TypeError"
    /\ shopping' = <<>>
    /\ ri' = 1
    /\ ii' = 1
    /\ UNCHANGED <<client, recipe_list, num_servings_dict>>
    /\ UNCHANGED listVars
    /\ UNCHANGED notAggVars

CurrentRecipe == recipe_list.val[ri]

\* lines 101-102: a recipe whose ingredients are not a list is skipped
compile_skip_recipe ==
    /\ client = "compile"
    /\ pc = "loop"
    /\ ri <= Len(recipe_list.val)
    /\ CurrentRecipe.ingredients.kind # "list"
    /\ ri' = ri + 1
    /\ ii' = 1
    /\ UNCHANGED <<client, recipe_list, num_servings_dict, shopping, pc, exc>>
    /\ UNCHANGED listVars
    /\ UNCHANGED notAggVars

\* lines 104-127: one ingredient line of the current recipe
compile_ingredient ==
    /\ client = "compile"
    /\ pc = "loop"
    /\ ri <= Len(recipe_list.val)
    /\ CurrentRecipe.ingredients.kind = "list"
    /\ ii <= Len(CurrentRecipe.ingredients.val)
    /\ LET name     == CurrentRecipe.name
           servings == ServingsFor(num_servings_dict.val, name)
           p        == _simple_parse(CurrentRecipe.ingredients.val[ii])
       IN shopping' = CompileMerge(shopping, p.item, p.unit,
                                   ScaledQty(p.quantity, servings), name)
    /\ ii' = ii + 1
    /\ UNCHANGED <<client, recipe_list, num_servings_dict, ri, pc, exc>>
    /\ UNCHANGED listVars
    /\ UNCHANGED notAggVars

\* line 104: the ingredients of the current recipe are exhausted
compile_next_recipe ==
    /\ client = "compile"
    /\ pc = "loop"
    /\ ri <= Len(recipe_list.val)
    /\ CurrentRecipe.ingredients.kind = "list"
    /\ ii > Len(CurrentRecipe.ingredients.val)
    /\ ri' = ri + 1
    /\ ii' = 1
    /\ UNCHANGED <<client, recipe_list, num_servings_dict, shopping, pc, exc>>
    /\ UNCHANGED listVars
    /\ UNCHANGED notAggVars

\* lines 129-136: the recipes are exhausted; the quantities are rounded and
\* shopping is returned
compile_return ==
    /\ client = "compile"
    /\ pc = "loop"
    /\ ri > Len(recipe_list.val)
    /\ shopping' = RoundAll(shopping)
    /\ pc' = "done"
    /\ UNCHANGED <<client, recipe_list, num_servings_dict, ri, ii, exc>>
    /\ UNCHANGED listVars
    /\ UNCHANGED notAggVars

\* ------------------------------------------------------------------------
\* models/Ingredient.py and models/ShoppingList.py
\* ------------------------------------------------------------------------

\* Ingredient.__init__: the line is parsed and the item normalized
Ingredient(ingredient_string) ==
    LET line == parse_ingredient_line(ingredient_string) IN
        [quantity    |-> line.quantity,
         unit        |-> line.unit,
         item        |-> normalize_ingredient_name(line.item),
         preparation |-> line.preparation]

\* an Ingredient object, or a value that is not one
IngredientArg(line) == [kind |-> "Ingredient", val |-> Ingredient(line)]

NotAnIngredient ==
    [kind |-> "other",
     val |-> [quantity |-> 0, unit |-> <<>>, item |-> <<>>, preparation |-> None]]

\* not recipe_name or not recipe_name.strip()
IsBlank(recipe_name) == recipe_name = <<>> \/ Strip(recipe_name) = <<>>

\* mutant of MergedQuantity: the quantity is added without conversion
MergedQuantity_Raw(existing_unit, ingredient) == ingredient.quantity

\* the quantity an existing entry gains from an ingredient
MergedQuantity(existing_unit, ingredient) ==
    IF existing_unit = ingredient.unit
    THEN ingredient.quantity
    ELSE convert_units(ingredient.quantity, ingredient.unit, existing_unit)

\* _items after the ingredient of recipe_name has been added
ListMerge(its, ingredient, recipe_name) ==
    LET i == IndexOf(its, ingredient.item) IN
        IF i # 0
        THEN [its EXCEPT ![i] =
                [item        |-> its[i].item,
                 quantity    |-> its[i].quantity
                                 + MergedQuantity(its[i].unit, ingredient),
                 unit        |-> its[i].unit,
                 recipes     |-> TrackRecipe(its[i].recipes, recipe_name),
                 preparation |-> its[i].preparation]]
        ELSE Append(its, [item        |-> ingredient.item,
                          quantity    |-> ingredient.quantity,
                          unit        |-> ingredient.unit,
                          recipes     |-> <<recipe_name>>,
                          preparation |-> ingredient.preparation])

\* del d[key] on a dict kept as the sequence of its entries
Delete(entries, i) ==
    SubSeq(entries, 1, i - 1) \o SubSeq(entries, i + 1, Len(entries))

\* the arguments of the calls made on the ShoppingList
ListRecipeNames == {<<"C", "o", "o", "k", "i", "e", "s">>,
                    <<"B", "r", "e", "a", "d">>,
                    <<>>, <<" ">>}

\* the lines of the Ingredient objects handed to add_ingredient
ListLines == Lines \cup {<<"3", " ", "t", "o", "m", "a", "t", "o">>,
                        <<"2", " ", "c", "u", "p", "s", " ", "w", "a", "t", "e", "r", "c", "r", "e", "s", "s">>}

RemoveNames == {<<"t", "o", "m", "a", "t", "o">>,
                <<"t", "o", "m", "a", "t", "o", "e", "s">>,
                <<"t", "o", "m", "a", "t", "o", "e">>,
                <<"w", "a", "t", "e", "r", "c", "r", "e", "s">>}

add_ingredient(ingredient, recipe_name) ==
    /\ client = "ShoppingList"
    /\ Len(calls) < MaxOps
    /\ IF ingredient.kind # "Ingredient"
       THEN /\ exc' = "TypeError"
            /\ UNCHANGED <<items, recipes, calls, result>>
       ELSE IF IsBlank(recipe_name)
       THEN /\ exc' = "ValueError"
            /\ UNCHANGED <<items, recipes, calls, result>>
       ELSE /\ exc' = "none"
            /\ recipes' = TrackRecipe(recipes, recipe_name)
            /\ items' = ListMerge(items, ingredient.val, recipe_name)
            /\ result' = "None"
            /\ calls' = Append(calls, [op |-> "add_ingredient",
                                       ingredient |-> ingredient.val,
                                       name |-> recipe_name,
                                       returned |-> "None"])
    /\ UNCHANGED client
    /\ UNCHANGED compileVars
    /\ UNCHANGED notAggVars

remove_item(item_name) ==
    /\ client = "ShoppingList"
    /\ Len(calls) < MaxOps
    /\ LET normalized_name == normalize_ingredient_name(item_name)
           i == IndexOf(items, normalized_name)
       IN /\ items' = IF i # 0 THEN Delete(items, i) ELSE items
          /\ result' = IF i # 0 THEN "True" ELSE "False"
          /\ calls' = Append(calls, [op |-> "remove_item",
                                     ingredient |-> NotAnIngredient.val,
                                     name |-> item_name,
                                     returned |-> IF i # 0 THEN "True" ELSE "False"])
    /\ exc' = "none"
    /\ UNCHANGED <<client, recipes>>
    /\ UNCHANGED compileVars
    /\ UNCHANGED notAggVars

\* ------------------------------------------------------------------------
\* Specification of the aggregators
\* ------------------------------------------------------------------------

\* parsed before parse_ingredient_line has returned
Unparsed == [quantity |-> 0, unit |-> <<>>, item |-> <<>>, preparation |-> None]

\* the aggregators at rest, in a behaviour of the part of the library c
AggIdle(c) ==
    /\ client = c
    /\ recipe_list = List(<<>>)
    /\ num_servings_dict = Dict(<<>>)
    /\ shopping = <<>>
    /\ ri = 1
    /\ ii = 1
    /\ pc = "call"
    /\ exc = "none"
    /\ items = <<>>
    /\ recipes = <<>>
    /\ calls = <<>>
    /\ result = "None"

\* the parser and the normalizer at rest
TextIdle ==
    /\ text = <<>>
    /\ parsed = Unparsed
    /\ name1 = <<>>
    /\ name2 = <<>>
    /\ tpc = "start"

\* the converter at rest
ConvIdle ==
    /\ amount = 0
    /\ unit_a = each
    /\ unit_b = each
    /\ there = 0
    /\ back = 0
    /\ cpc = "start"

\* None as a returned value
NoValue == [none |-> TRUE]

\* no store compared by a ShoppingList
CompareIdle ==
    /\ store_objects = <<>>
    /\ store_comparisons = <<>>
    /\ stores = <<>>
    /\ cmp_op = "none"
    /\ cmp_ret = NoValue

\* no session of the command line program
CliIdle ==
    /\ current_shopping_list = NoValue
    /\ shopping_history = <<>>
    /\ clock = 0
    /\ used = NoValue

\* no RecipeBook constructed
BookIdle ==
    /\ book_recipes = <<>>
    /\ book_file = <<>>
    /\ book_op = "none"
    /\ book_arg = Other
    /\ book_exc = "none"
    /\ book_calls = 0
    /\ book_ret = NoValue
    /\ handle = NoValue
    /\ book_before = <<>>

\* the store functions not called
StoreIdle ==
    /\ store_inventory = <<>>
    /\ wanted = <<>>
    /\ found = NoValue
    /\ priced = NoValue
    /\ files = <<>>
    /\ store_list = <<>>
    /\ comparison = <<>>
    /\ si = 1
    /\ ranking = <<>>
    /\ spc = "call"

\* group_items_by_category not called
CatIdle ==
    /\ categorized = <<>>
    /\ ci = 1
    /\ grouped = <<>>
    /\ kpc = "call"

Init ==
    /\ client \in {"compile", "ShoppingList"}
    /\ recipe_list \in (IF client = "compile" THEN RecipeLists ELSE {List(<<>>)})
    /\ num_servings_dict \in
           (IF client = "compile" THEN ServingsDicts ELSE {Dict(<<>>)})
    /\ shopping = <<>>
    /\ ri = 1
    /\ ii = 1
    /\ pc = "call"
    /\ exc = "none"
    /\ items = <<>>
    /\ recipes = <<>>
    /\ calls = <<>>
    /\ result = "None"
    /\ TextIdle
    /\ ConvIdle
    /\ shopping_list = <<>>
    /\ CatIdle
    /\ StoreIdle
    /\ BookIdle
    /\ CompareIdle
    /\ CliIdle

Next ==
    \/ compile_enter
    \/ compile_skip_recipe
    \/ compile_ingredient
    \/ compile_next_recipe
    \/ compile_return
    \/ \E line \in ListLines, name \in ListRecipeNames :
           add_ingredient(IngredientArg(line), name)
    \/ \E name \in ListRecipeNames : add_ingredient(NotAnIngredient, name)
    \/ \E item_name \in RemoveNames : remove_item(item_name)

Spec == Init /\ [][Next]_vars

\* ------------------------------------------------------------------------
\* Specification of the parser and the normalizer
\* ------------------------------------------------------------------------

SeqsUpTo(S, n) == UNION {[1..k -> S] : k \in 0..n}

\* the tokens the generated lines are made of: a number, a fraction, a
\* unit, a preparation word, a plural, the two words of a synonym, a
\* descriptor
Tokens == {
    <<"2">>,
    <<"1", "/", "2">>,
    <<"c", "u", "p", "s">>,
    <<"D", "i", "c", "e", "d">>,
    <<"t", "o", "m", "a", "t", "o", "e", "s">>,
    <<"g", "r", "e", "e", "n">>,
    <<"o", "n", "i", "o", "n", "s">>,
    <<"F", "r", "e", "s", "h">> }

RECURSIVE JoinWith(_, _)
JoinWith(parts, sep) ==
    IF parts = <<>> THEN <<>>
    ELSE IF Len(parts) = 1 THEN parts[1]
    ELSE parts[1] \o sep \o JoinWith(Tail(parts), sep)

\* at most MaxTokens tokens, separated by a space or by a space and a tab,
\* with or without whitespace around them
GeneratedLines ==
    {lead \o JoinWith(ts, sep) \o trail :
        ts \in SeqsUpTo(Tokens, MaxTokens),
        sep \in {<<" ">>, <<" ", "\t">>},
        lead \in {<<>>, <<" ">>},
        trail \in {<<>>, <<" ", " ">>}}

\* the lines of the parser's tests and docstrings
TestLines == {
    <<"2", " ", "c", "u", "p", "s", " ", "f", "l", "o", "u", "r">>,
    <<"1", " ", "1", "/", "2", " ", "t", "s", "p", " ", "v", "a", "n", "i", "l", "l", "a">>,
    <<"1", "/", "2", " ", "c", "u", "p", " ", "s", "u", "g", "a", "r">>,
    <<"3", " ", "e", "g", "g", "s">>,
    <<"2", " ", "c", "u", "p", "s", " ", "d", "i", "c", "e", "d", " ", "t", "o", "m", "a", "t", "o", "e", "s">>,
    <<"F", "r", "e", "s", "h", " ", "T", "o", "m", "a", "t", "o", "e", "s">>,
    <<"G", "r", "e", "e", "n", " ", "o", "n", "i", "o", "n">>,
    <<"o", "r", "g", "a", "n", "i", "c", " ", "w", "h", "o", "l", "e", " ", "m", "i", "l", "k">> }

TextInputs == GeneratedLines \cup TestLines

InitText ==
    /\ AggIdle("text")
    /\ ConvIdle
    /\ shopping_list = <<>>
    /\ CatIdle
    /\ StoreIdle
    /\ BookIdle
    /\ text \in TextInputs
    /\ parsed = Unparsed
    /\ name1 = <<>>
    /\ name2 = <<>>
    /\ tpc = "start"
    /\ CompareIdle
    /\ CliIdle

\* parse_ingredient_line(text), the first step of Ingredient.__init__
ParseLine ==
    /\ tpc = "start"
    /\ parsed' = parse_ingredient_line(text)
    /\ tpc' = "parsed"
    /\ UNCHANGED <<text, name1, name2>>
    /\ UNCHANGED notTextVars

\* normalize_ingredient_name(parsed['item']), the second step of
\* Ingredient.__init__
NormalizeItem ==
    /\ tpc = "parsed"
    /\ name1' = normalize_ingredient_name(parsed.item)
    /\ tpc' = "named"
    /\ UNCHANGED <<text, parsed, name2>>
    /\ UNCHANGED notTextVars

\* normalize_ingredient_name(text), as a caller does with a raw name
NormalizeText ==
    /\ tpc = "start"
    /\ name1' = normalize_ingredient_name(text)
    /\ tpc' = "named"
    /\ UNCHANGED <<text, parsed, name2>>
    /\ UNCHANGED notTextVars

\* normalize_ingredient_name applied to a name it returned, as
\* ShoppingList.remove_item does with the key of an item
NormalizeAgain ==
    /\ tpc = "named"
    /\ name2' = normalize_ingredient_name(name1)
    /\ tpc' = "renamed"
    /\ UNCHANGED <<text, parsed, name1>>
    /\ UNCHANGED notTextVars

NextText ==
    \/ ParseLine
    \/ NormalizeItem
    \/ NormalizeText
    \/ NormalizeAgain

SpecText == InitText /\ [][NextText]_vars

\* ------------------------------------------------------------------------
\* Specification of the unit converter
\* ------------------------------------------------------------------------

\* the units handed to convert_units: those of the two tables, two of them
\* in another case, and units of neither table
ConvertUnits == {
    <<"c", "u", "p">>, <<"c", "u", "p", "s">>, <<"C", "u", "p", "s">>,
    <<"t", "b", "s", "p">>, <<"t", "a", "b", "l", "e", "s", "p", "o", "o", "n">>,
    <<"t", "s", "p">>, <<"t", "e", "a", "s", "p", "o", "o", "n">>,
    <<"l", "b">>, <<"L", "B">>, <<"p", "o", "u", "n", "d">>,
    <<"o", "z">>, <<"o", "u", "n", "c", "e">>,
    each, <<"c", "o", "u", "n", "t">>, <<"h", "e", "a", "d">>, <<"c", "a", "n">> }

\* the quantities handed to convert_units, in units of 1/Scale: the
\* multiples of 0.25 up to MaxQuarters quarters, and two quantities of more
\* than 2 decimals
ConvertQuantities ==
    {k * (Scale \div 4) : k \in 0..MaxQuarters} \cup {3333, 12345}

InitConvert ==
    /\ AggIdle("convert")
    /\ TextIdle
    /\ shopping_list = <<>>
    /\ CatIdle
    /\ StoreIdle
    /\ BookIdle
    /\ amount \in ConvertQuantities
    /\ unit_a \in ConvertUnits
    /\ unit_b \in ConvertUnits
    /\ there = 0
    /\ back = 0
    /\ cpc = "start"
    /\ CompareIdle
    /\ CliIdle

\* there = convert_units(amount, unit_a, unit_b)
Convert ==
    /\ cpc = "start"
    /\ there' = convert_units(amount, unit_a, unit_b)
    /\ cpc' = "converted"
    /\ UNCHANGED <<amount, unit_a, unit_b, back>>
    /\ UNCHANGED notConvVars

\* back = convert_units(there, unit_b, unit_a)
ConvertBack ==
    /\ cpc = "converted"
    /\ back' = convert_units(there, unit_b, unit_a)
    /\ cpc' = "returned"
    /\ UNCHANGED <<amount, unit_a, unit_b, there>>
    /\ UNCHANGED notConvVars

NextConvert ==
    \/ Convert
    \/ ConvertBack

SpecConvert == InitConvert /\ [][NextConvert]_vars

\* ------------------------------------------------------------------------
\* export_utils.py: group_items_by_category
\* ------------------------------------------------------------------------

CATEGORY_MAP == <<
    [category |-> "Produce", keywords |-> {
        <<"t", "o", "m", "a", "t", "o">>,
        <<"l", "e", "t", "t", "u", "c", "e">>,
        <<"o", "n", "i", "o", "n">>,
        <<"g", "a", "r", "l", "i", "c">>,
        <<"c", "a", "r", "r", "o", "t">>,
        <<"c", "e", "l", "e", "r", "y">>,
        <<"p", "e", "p", "p", "e", "r">>,
        <<"c", "u", "c", "u", "m", "b", "e", "r">>,
        <<"p", "o", "t", "a", "t", "o">>,
        <<"b", "r", "o", "c", "c", "o", "l", "i">>,
        <<"s", "p", "i", "n", "a", "c", "h">>,
        <<"m", "u", "s", "h", "r", "o", "o", "m">>,
        <<"z", "u", "c", "c", "h", "i", "n", "i">>,
        <<"s", "q", "u", "a", "s", "h">>,
        <<"c", "a", "b", "b", "a", "g", "e">>,
        <<"c", "o", "r", "n">>,
        <<"p", "e", "a", "s">> }],
    [category |-> "Dairy", keywords |-> {
        <<"m", "i", "l", "k">>,
        <<"c", "h", "e", "e", "s", "e">>,
        <<"b", "u", "t", "t", "e", "r">>,
        <<"y", "o", "g", "u", "r", "t">>,
        <<"c", "r", "e", "a", "m">>,
        <<"s", "o", "u", "r", " ", "c", "r", "e", "a", "m">>,
        <<"c", "o", "t", "t", "a", "g", "e", " ", "c", "h", "e", "e", "s", "e">>,
        <<"c", "r", "e", "a", "m", " ", "c", "h", "e", "e", "s", "e">>,
        <<"p", "a", "r", "m", "e", "s", "a", "n">>,
        <<"m", "o", "z", "z", "a", "r", "e", "l", "l", "a">>,
        <<"c", "h", "e", "d", "d", "a", "r">>,
        <<"e", "g", "g", "s">> }],
    [category |-> "Meat & Seafood", keywords |-> {
        <<"c", "h", "i", "c", "k", "e", "n">>,
        <<"b", "e", "e", "f">>,
        <<"p", "o", "r", "k">>,
        <<"t", "u", "r", "k", "e", "y">>,
        <<"f", "i", "s", "h">>,
        <<"s", "a", "l", "m", "o", "n">>,
        <<"s", "h", "r", "i", "m", "p">>,
        <<"t", "u", "n", "a">>,
        <<"b", "a", "c", "o", "n">>,
        <<"s", "a", "u", "s", "a", "g", "e">>,
        <<"g", "r", "o", "u", "n", "d", " ", "b", "e", "e", "f">>,
        <<"c", "h", "i", "c", "k", "e", "n", " ", "b", "r", "e", "a", "s", "t">>,
        <<"s", "t", "e", "a", "k">> }],
    [category |-> "Canned Goods", keywords |-> {
        <<"t", "o", "m", "a", "t", "o", " ", "p", "a", "s", "t", "e">>,
        <<"t", "o", "m", "a", "t", "o", " ", "s", "a", "u", "c", "e">>,
        <<"b", "e", "a", "n", "s">>,
        <<"c", "o", "r", "n">>,
        <<"s", "o", "u", "p">>,
        <<"b", "r", "o", "t", "h">>,
        <<"s", "t", "o", "c", "k">>,
        <<"t", "u", "n", "a">>,
        <<"o", "l", "i", "v", "e", "s">>,
        <<"p", "i", "c", "k", "l", "e", "s">> }],
    [category |-> "Pasta & Grains", keywords |-> {
        <<"p", "a", "s", "t", "a">>,
        <<"r", "i", "c", "e">>,
        <<"f", "l", "o", "u", "r">>,
        <<"b", "r", "e", "a", "d">>,
        <<"t", "o", "r", "t", "i", "l", "l", "a">>,
        <<"q", "u", "i", "n", "o", "a">>,
        <<"o", "a", "t", "s">>,
        <<"c", "e", "r", "e", "a", "l">>,
        <<"n", "o", "o", "d", "l", "e", "s">>,
        <<"s", "p", "a", "g", "h", "e", "t", "t", "i">>,
        <<"m", "a", "c", "a", "r", "o", "n", "i">> }],
    [category |-> "Spices & Seasonings", keywords |-> {
        <<"s", "a", "l", "t">>,
        <<"p", "e", "p", "p", "e", "r">>,
        <<"c", "u", "m", "i", "n">>,
        <<"p", "a", "p", "r", "i", "k", "a">>,
        <<"o", "r", "e", "g", "a", "n", "o">>,
        <<"b", "a", "s", "i", "l">>,
        <<"t", "h", "y", "m", "e">>,
        <<"r", "o", "s", "e", "m", "a", "r", "y">>,
        <<"g", "a", "r", "l", "i", "c", " ", "p", "o", "w", "d", "e", "r">>,
        <<"o", "n", "i", "o", "n", " ", "p", "o", "w", "d", "e", "r">>,
        <<"c", "i", "n", "n", "a", "m", "o", "n">>,
        <<"v", "a", "n", "i", "l", "l", "a">>,
        <<"c", "h", "i", "l", "i", " ", "p", "o", "w", "d", "e", "r">>,
        <<"c", "a", "y", "e", "n", "n", "e">> }],
    [category |-> "Baking", keywords |-> {
        <<"s", "u", "g", "a", "r">>,
        <<"b", "a", "k", "i", "n", "g", " ", "s", "o", "d", "a">>,
        <<"b", "a", "k", "i", "n", "g", " ", "p", "o", "w", "d", "e", "r">>,
        <<"v", "a", "n", "i", "l", "l", "a", " ", "e", "x", "t", "r", "a", "c", "t">>,
        <<"y", "e", "a", "s", "t">>,
        <<"c", "h", "o", "c", "o", "l", "a", "t", "e", " ", "c", "h", "i", "p", "s">>,
        <<"c", "o", "c", "o", "a", " ", "p", "o", "w", "d", "e", "r">>,
        <<"b", "r", "o", "w", "n", " ", "s", "u", "g", "a", "r">>,
        <<"p", "o", "w", "d", "e", "r", "e", "d", " ", "s", "u", "g", "a", "r">>,
        <<"h", "o", "n", "e", "y">>,
        <<"s", "y", "r", "u", "p">> }],
    [category |-> "Condiments & Sauces", keywords |-> {
        <<"k", "e", "t", "c", "h", "u", "p">>,
        <<"m", "u", "s", "t", "a", "r", "d">>,
        <<"m", "a", "y", "o", "n", "n", "a", "i", "s", "e">>,
        <<"h", "o", "t", " ", "s", "a", "u", "c", "e">>,
        <<"s", "o", "y", " ", "s", "a", "u", "c", "e">>,
        <<"v", "i", "n", "e", "g", "a", "r">>,
        <<"o", "i", "l">>,
        <<"o", "l", "i", "v", "e", " ", "o", "i", "l">>,
        <<"v", "e", "g", "e", "t", "a", "b", "l", "e", " ", "o", "i", "l">>,
        <<"d", "r", "e", "s", "s", "i", "n", "g">>,
        <<"s", "a", "l", "s", "a">>,
        <<"b", "b", "q", " ", "s", "a", "u", "c", "e">> }],
    [category |-> "Frozen", keywords |-> {
        <<"f", "r", "o", "z", "e", "n", " ", "v", "e", "g", "e", "t", "a", "b", "l", "e", "s">>,
        <<"i", "c", "e", " ", "c", "r", "e", "a", "m">>,
        <<"f", "r", "o", "z", "e", "n", " ", "p", "i", "z", "z", "a">>,
        <<"f", "r", "o", "z", "e", "n", " ", "f", "r", "u", "i", "t">> }],
    [category |-> "Beverages", keywords |-> {
        <<"w", "a", "t", "e", "r">>,
        <<"j", "u", "i", "c", "e">>,
        <<"s", "o", "d", "a">>,
        <<"c", "o", "f", "f", "e", "e">>,
        <<"t", "e", "a">>,
        <<"w", "i", "n", "e">>,
        <<"b", "e", "e", "r">> }] >>

\* the keys of categorized, in the order they are inserted
CategoryNames ==
    [i \in 1..Len(CATEGORY_MAP) |-> CATEGORY_MAP[i].category] \o <<"Other">>

\* any(keyword in item_lower for keyword in keywords)
AnyKeywordIn(item_lower, keywords) ==
    \E keyword \in keywords : Contains(item_lower, keyword)

\* FindCategory scanning the table from its end
RECURSIVE FindCategory_LastMatch(_, _)
FindCategory_LastMatch(item_lower, i) ==
    LET j == Len(CATEGORY_MAP) + 1 - i IN
        IF i > Len(CATEGORY_MAP) THEN "Other"
        ELSE IF AnyKeywordIn(item_lower, CATEGORY_MAP[j].keywords)
             THEN CATEGORY_MAP[j].category
             ELSE FindCategory_LastMatch(item_lower, i + 1)

\* the scan of CATEGORY_MAP from entry i on: the first category one of whose
\* keywords occurs in item_lower, 'Other' when the scan ends without one
RECURSIVE FindCategory(_, _)
FindCategory(item_lower, i) ==
    IF i > Len(CATEGORY_MAP) THEN "Other"
    ELSE IF AnyKeywordIn(item_lower, CATEGORY_MAP[i].keywords)
         THEN CATEGORY_MAP[i].category
         ELSE FindCategory(item_lower, i + 1)

\* categorized[category][item_name] = item_data
PutItem(cats, category, entry) ==
    [k \in 1..Len(cats) |->
        IF cats[k].category = category
        THEN [cats[k] EXCEPT !.items = Append(@, entry)]
        ELSE cats[k]]

RECURSIVE SelectNonEmpty(_)
SelectNonEmpty(cats) ==
    IF cats = <<>> THEN <<>>
    ELSE (IF cats[1].items # <<>> THEN <<cats[1]>> ELSE <<>>)
         \o SelectNonEmpty(Tail(cats))

\* RemoveEmpty keeping the ten categories of the table only
RemoveEmpty_TableOnly(cats) == SelectNonEmpty(SubSeq(cats, 1, Len(CATEGORY_MAP)))

\* {k: v for k, v in categorized.items() if v}
RemoveEmpty(cats) == SelectNonEmpty(cats)

\* the item names handed to group_items_by_category
CategorizeNames == {
    <<"t", "o", "m", "a", "t", "o">>, <<"t", "o", "m", "a", "t", "o", " ", "p", "a", "s", "t", "e">>, <<"c", "o", "r", "n">>, <<"t", "u", "n", "a">>, <<"p", "e", "p", "p", "e", "r">>, <<"M", "i", "l", "k">>,
    <<"i", "c", "e", " ", "c", "r", "e", "a", "m">>, <<"v", "a", "n", "i", "l", "l", "a", " ", "e", "x", "t", "r", "a", "c", "t">>, <<"g", "a", "r", "l", "i", "c", " ", "p", "o", "w", "d", "e", "r">>,
    <<"e", "x", "o", "t", "i", "c", "_", "s", "p", "i", "c", "e", "_", "m", "i", "x">>, <<"s", "p", "e", "c", "i", "a", "l", "t", "y", "_", "i", "t", "e", "m">>, <<>> }

\* the records of the items
ItemData == {[quantity |-> 2 * Scale, unit |-> <<"c", "o", "u", "n", "t">>],
             [quantity |-> Scale \div 8, unit |-> <<"l", "b">>]}

\* a dict of at most n items: the keys are distinct
ShoppingListsOf(names, n) ==
    {sl \in SeqsUpTo([item : names, data : ItemData], n) :
        \A i, j \in 1..Len(sl) : sl[i].item = sl[j].item => i = j}

InitCategorize ==
    /\ AggIdle("categorize")
    /\ TextIdle
    /\ ConvIdle
    /\ StoreIdle
    /\ BookIdle
    /\ shopping_list \in ShoppingListsOf(CategorizeNames, MaxItems)
    /\ categorized = <<>>
    /\ ci = 1
    /\ grouped = <<>>
    /\ kpc = "call"
    /\ CompareIdle
    /\ CliIdle

\* CATEGORY_MAP is built and categorized initialized, every category empty
categorize_enter ==
    /\ kpc = "call"
    /\ categorized' = [k \in 1..Len(CategoryNames) |->
                          [category |-> CategoryNames[k], items |-> <<>>]]
    /\ ci' = 1
    /\ kpc' = "loop"
    /\ UNCHANGED grouped
    /\ UNCHANGED notCatVars

\* one iteration of: for item_name, item_data in shopping_list.items()
categorize_item ==
    /\ kpc = "loop"
    /\ ci <= Len(shopping_list)
    /\ LET entry == shopping_list[ci]
           item_lower == Lower(entry.item)
       IN categorized' = PutItem(categorized, FindCategory(item_lower, 1), entry)
    /\ ci' = ci + 1
    /\ UNCHANGED <<grouped, kpc>>
    /\ UNCHANGED notCatVars

\* the empty categories are removed and the dict returned
categorize_return ==
    /\ kpc = "loop"
    /\ ci > Len(shopping_list)
    /\ grouped' = RemoveEmpty(categorized)
    /\ kpc' = "done"
    /\ UNCHANGED <<categorized, ci>>
    /\ UNCHANGED notCatVars

NextCategorize ==
    \/ categorize_enter
    \/ categorize_item
    \/ categorize_return

SpecCategorize == InitCategorize /\ [][NextCategorize]_vars

\* ------------------------------------------------------------------------
\* store_data.py
\* ------------------------------------------------------------------------

\* float('inf'): totals are never negative, and -1 stands for +infinity
inf == 0 - 1

\* a < b on totals
TotalLess(a, b) == a # inf /\ (b = inf \/ a < b)

\* name[:-1]
AllButLast(name) == SubSeq(name, 1, Len(name) - 1)

\* the parsed rows of an inventory file, read into a dict: the key is the
\* item_name lowercased and trimmed, a later row replaces an earlier one
RECURSIVE ReadRows(_, _)
ReadRows(rows, inventory) ==
    IF rows = <<>> THEN inventory
    ELSE LET item_name == Strip(Lower(rows[1].item_name))
             others == [k \in DOMAIN inventory \ {item_name} |-> inventory[k]]
         IN ReadRows(Tail(rows),
                     others @@ (item_name :> [price |-> rows[1].price]))

\* load_store_data(store_name) on the file of the store: FileNotFoundError
\* when there is none, the empty dict when reading it raises, else the
\* inventory read
load_store_data(file) ==
    IF file.kind = "missing"
    THEN [raised |-> "FileNotFoundError", inventory |-> <<>>]
    ELSE IF file.kind = "broken"
    THEN [raised |-> "none", inventory |-> <<>>]
    ELSE [raised |-> "none", inventory |-> ReadRows(file.rows, <<>>)]

\* find_item_price on a string and a dict: the price info, or None
find_item_price(item_name, inventory) ==
    LET key == Lower(Strip(item_name)) IN
        IF key = <<>> THEN NoValue
        ELSE IF key \in DOMAIN inventory THEN inventory[key]
        ELSE IF EndsWith(key, <<"s">>) /\ AllButLast(key) \in DOMAIN inventory
        THEN inventory[AllButLast(key)]
        ELSE IF (key \o <<"s">>) \in DOMAIN inventory
        THEN inventory[key \o <<"s">>]
        ELSE NoValue

\* LookupKey trying the singular before the plural
LookupKey_SingularFirst(item_name, inventory) ==
    IF item_name \in DOMAIN inventory THEN <<item_name>>
    ELSE IF EndsWith(item_name, <<"s">>)
            /\ AllButLast(item_name) \in DOMAIN inventory
    THEN <<AllButLast(item_name)>>
    ELSE IF (item_name \o <<"s">>) \in DOMAIN inventory
    THEN <<item_name \o <<"s">>>>
    ELSE <<>>

\* the inventory key calculate_shopping_list_total prices an item by, as a
\* sequence of one key, empty when the item is not found
LookupKey(item_name, inventory) ==
    IF item_name \in DOMAIN inventory THEN <<item_name>>
    ELSE IF (item_name \o <<"s">>) \in DOMAIN inventory
    THEN <<item_name \o <<"s">>>>
    ELSE IF EndsWith(item_name, <<"s">>)
            /\ AllButLast(item_name) \in DOMAIN inventory
    THEN <<AllButLast(item_name)>>
    ELSE <<>>

\* a record of a shopping list is a dict
IsDict(item_data) == "quantity" \in DOMAIN item_data

\* PriceOne leaving the items found by their plural or singular out of
\* total_cost
PriceOne_FuzzyNotSummed(acc, entry, inventory) ==
    LET key == LookupKey(entry.item, inventory) IN
        IF acc.raised # "none" THEN acc
        ELSE IF key = <<>>
        THEN [acc EXCEPT !.not_found = Append(@, entry.item)]
        ELSE IF ~IsDict(entry.data)
        THEN [acc EXCEPT !.raised = "AttributeError"]
        ELSE LET unit_price == inventory[key[1]].price
                 item_total == entry.data.quantity * unit_price
             IN [acc EXCEPT
                    !.itemized = Append(@,
                        [item |-> entry.item,
                         quantity |-> entry.data.quantity,
                         unit |-> entry.data.unit,
                         unit_price |-> unit_price,
                         total |-> Round2Div(item_total, Scale)]),
                    !.total_cost = IF key[1] = entry.item
                                   THEN @ + item_total ELSE @]

\* one iteration of the loop of calculate_shopping_list_total; total_cost
\* is held in units of 1/Scale^2
PriceOne(acc, entry, inventory) ==
    LET key == LookupKey(entry.item, inventory) IN
        IF acc.raised # "none" THEN acc
        ELSE IF key = <<>>
        THEN [acc EXCEPT !.not_found = Append(@, entry.item)]
        ELSE IF ~IsDict(entry.data)
        THEN [acc EXCEPT !.raised = "AttributeError"]
        ELSE LET unit_price == inventory[key[1]].price
                 item_total == entry.data.quantity * unit_price
             IN [acc EXCEPT
                    !.itemized = Append(@,
                        [item |-> entry.item,
                         quantity |-> entry.data.quantity,
                         unit |-> entry.data.unit,
                         unit_price |-> unit_price,
                         total |-> Round2Div(item_total, Scale)]),
                    !.total_cost = @ + item_total]

RECURSIVE PriceAll(_, _, _)
PriceAll(acc, sl, inventory) ==
    IF sl = <<>> THEN acc
    ELSE PriceAll(PriceOne(acc, sl[1], inventory), Tail(sl), inventory)

\* calculate_shopping_list_total: the dict returned, or the exception
\* raised by item_data.get on a record that is not a dict
calculate_shopping_list_total(sl, inventory) ==
    LET acc == PriceAll([raised |-> "none", total_cost |-> 0,
                         itemized |-> <<>>, not_found |-> <<>>],
                        sl, inventory)
    IN [raised |-> acc.raised,
        total |-> Round2Div(acc.total_cost, Scale),
        itemized |-> acc.itemized,
        not_found |-> acc.not_found]

\* comparison[store_name] = summary
PutStore(comp, store_name, summary) ==
    IF \E k \in 1..Len(comp) : comp[k].store = store_name
    THEN [k \in 1..Len(comp) |->
             IF comp[k].store = store_name
             THEN [store |-> store_name, summary |-> summary]
             ELSE comp[k]]
    ELSE Append(comp, [store |-> store_name, summary |-> summary])

\* the summary compare_store_totals records for one store
StoreSummary(sl, file) ==
    LET loaded == load_store_data(file)
        res == calculate_shopping_list_total(sl, loaded.inventory)
    IN IF loaded.raised # "none" \/ res.raised # "none"
       THEN [total |-> inf, items_found |-> 0, items_missing |-> Len(sl)]
       ELSE [total |-> res.total,
             items_found |-> Len(res.itemized),
             items_missing |-> Len(res.not_found)]

\* InsertByTotal putting an entry before the entries of the same total
RECURSIVE InsertByTotal_BeforeEqual(_, _)
InsertByTotal_BeforeEqual(sorted, e) ==
    IF sorted = <<>> THEN <<e>>
    ELSE IF TotalLess(sorted[1].summary.total, e.summary.total)
    THEN <<sorted[1]>> \o InsertByTotal_BeforeEqual(Tail(sorted), e)
    ELSE <<e>> \o sorted

\* an entry put into a sorted sequence, after the entries whose total is
\* not greater
RECURSIVE InsertByTotal(_, _)
InsertByTotal(sorted, e) ==
    IF sorted = <<>> THEN <<e>>
    ELSE IF TotalLess(e.summary.total, sorted[1].summary.total)
    THEN <<e>> \o sorted
    ELSE <<sorted[1]>> \o InsertByTotal(Tail(sorted), e)

\* sorted(comparison.items(), key=lambda x: x[1]['total']), a stable sort
RECURSIVE SortedByTotal(_)
SortedByTotal(comp) ==
    IF comp = <<>> THEN <<>>
    ELSE InsertByTotal(SortedByTotal(SubSeq(comp, 1, Len(comp) - 1)),
                       comp[Len(comp)])

\* ------------------------------------------------------------------------
\* Specification of the store functions
\* ------------------------------------------------------------------------

\* the prices of the inventory keys, in units of 1/Scale
KeyPrices ==
    (<<"t", "o", "m", "a", "t", "o">> :> 5000) @@ (<<"t", "o", "m", "a", "t", "o", "e", "s">> :> 5900) @@ (<<"p", "e", "a">> :> 8900) @@
    (<<"p", "e", "a", "s">> :> 12500) @@ (<<"p", "e", "a", "s", "s">> :> 34900)

\* the inventories handed to the store functions
Inventories ==
    {[k \in keys |-> [price |-> KeyPrices[k]]] : keys \in SUBSET DOMAIN KeyPrices}

\* a record of a shopping list that is not a dict
NotADict == [kind |-> "str"]

\* the shopping lists handed to calculate_shopping_list_total
PricedNames == {<<"t", "o", "m", "a", "t", "o">>, <<"t", "o", "m", "a", "t", "o", "e", "s">>, <<"p", "e", "a", "s">>, <<"r", "a", "r", "e", "_", "i", "t", "e", "m">>}

PricedLists ==
    {sl \in SeqsUpTo([item : PricedNames, data : ItemData \cup {NotADict}],
                      MaxItems) :
        \A i, j \in 1..Len(sl) : sl[i].item = sl[j].item => i = j}

\* the names handed to find_item_price
WantedNames == PricedNames \cup {<<" ", "T", "o", "m", "a", "t", "o", "e", "s">>, <<"p", "e", "a">>, <<" ">>}

StoreNames == {<<"s", "a", "f", "e", "w", "a", "y">>, <<"g", "i", "a", "n", "t">>, <<"t", "r", "a", "d", "e", "r", "_", "j", "o", "e", "s">>}

\* the inventory file of a store: none, one whose reading raises, or rows
StoreFiles == {
    [kind |-> "missing", rows |-> <<>>],
    [kind |-> "broken", rows |-> <<>>],
    [kind |-> "csv",
     rows |-> <<[item_name |-> <<"T", "o", "m", "a", "t", "o", " ">>, price |-> 5000]>>],
    [kind |-> "csv",
     rows |-> <<[item_name |-> <<"t", "o", "m", "a", "t", "o">>, price |-> 8900],
                [item_name |-> <<"t", "o", "m", "a", "t", "o">>, price |-> 5000],
                [item_name |-> <<"m", "i", "l", "k">>, price |-> 34900]>>],
    [kind |-> "csv",
     rows |-> <<[item_name |-> <<"t", "o", "m", "a", "t", "o", "s">>, price |-> 8900]>>] }

\* the shopping lists handed to compare_store_totals
ComparedLists ==
    {sl \in SeqsUpTo([item : {<<"t", "o", "m", "a", "t", "o">>,
                               <<"r", "a", "r", "e", "_", "i", "t", "e", "m">>},
                       data : {[quantity |-> 2 * Scale,
                                unit |-> <<"c", "o", "u", "n", "t">>],
                               NotADict}],
                      MaxItems) :
        \A i, j \in 1..Len(sl) : sl[i].item = sl[j].item => i = j}

InitStore ==
    /\ client \in {"find_item_price", "calculate_shopping_list_total",
                    "compare_store_totals"}
    /\ recipe_list = List(<<>>)
    /\ num_servings_dict = Dict(<<>>)
    /\ shopping = <<>>
    /\ ri = 1
    /\ ii = 1
    /\ pc = "call"
    /\ exc = "none"
    /\ items = <<>>
    /\ recipes = <<>>
    /\ calls = <<>>
    /\ result = "None"
    /\ TextIdle
    /\ ConvIdle
    /\ CatIdle
    /\ BookIdle
    /\ wanted \in (IF client = "find_item_price" THEN WantedNames ELSE {<<>>})
    /\ store_inventory \in
           (IF client = "compare_store_totals" THEN {<<>>} ELSE Inventories)
    /\ shopping_list \in
           (IF client = "calculate_shopping_list_total" THEN PricedLists
            ELSE IF client = "compare_store_totals" THEN ComparedLists
            ELSE {<<>>})
    /\ files \in (IF client = "compare_store_totals"
                   THEN [StoreNames -> StoreFiles] ELSE {<<>>})
    /\ store_list \in (IF client = "compare_store_totals"
                        THEN SeqsUpTo(StoreNames, MaxStores) ELSE {<<>>})
    /\ found = NoValue
    /\ priced = NoValue
    /\ comparison = <<>>
    /\ si = 1
    /\ ranking = <<>>
    /\ spc = "call"
    /\ CompareIdle
    /\ CliIdle

\* found = find_item_price(wanted, store_inventory)
call_find_item_price ==
    /\ client = "find_item_price"
    /\ spc = "call"
    /\ found' = find_item_price(wanted, store_inventory)
    /\ spc' = "done"
    /\ UNCHANGED <<store_inventory, wanted, priced, files, store_list,
                   comparison, si, ranking>>
    /\ UNCHANGED notStoreVars

\* priced = calculate_shopping_list_total(shopping_list, store_inventory)
call_calculate_shopping_list_total ==
    /\ client = "calculate_shopping_list_total"
    /\ spc = "call"
    /\ LET res == calculate_shopping_list_total(shopping_list, store_inventory)
       IN IF res.raised = "none"
          THEN /\ priced' = [total |-> res.total, itemized |-> res.itemized,
                             not_found |-> res.not_found]
               /\ spc' = "done"
          ELSE /\ priced' = priced
               /\ spc' = "raised"
    /\ UNCHANGED <<store_inventory, wanted, found, files, store_list,
                   comparison, si, ranking>>
    /\ UNCHANGED notStoreVars

\* compare_store_totals is entered: comparison = {}
compare_enter ==
    /\ client = "compare_store_totals"
    /\ spc = "call"
    /\ comparison' = <<>>
    /\ si' = 1
    /\ spc' = "loop"
    /\ UNCHANGED <<store_inventory, wanted, found, priced, files, store_list,
                   ranking>>
    /\ UNCHANGED notStoreVars

\* one iteration of: for store_name in store_list
compare_store ==
    /\ spc = "loop"
    /\ si <= Len(store_list)
    /\ comparison' = PutStore(comparison, store_list[si],
                              StoreSummary(shopping_list, files[store_list[si]]))
    /\ si' = si + 1
    /\ UNCHANGED <<store_inventory, wanted, found, priced, files, store_list,
                   ranking, spc>>
    /\ UNCHANGED notStoreVars

\* the comparison is sorted by total and returned
compare_return ==
    /\ spc = "loop"
    /\ si > Len(store_list)
    /\ ranking' = SortedByTotal(comparison)
    /\ spc' = "done"
    /\ UNCHANGED <<store_inventory, wanted, found, priced, files, store_list,
                   comparison, si>>
    /\ UNCHANGED notStoreVars

NextStore ==
    \/ call_find_item_price
    \/ call_calculate_shopping_list_total
    \/ compare_enter
    \/ compare_store
    \/ compare_return

SpecStore == InitStore /\ [][NextStore]_vars

\* ------------------------------------------------------------------------
\* models/RecipeBook.py
\* ------------------------------------------------------------------------

required_fields == <<"name", "ingredients", "directions">>

\* any(r['name'].lower() == name.lower() for r in self.recipes)
HasRecipeNamed(held, name) ==
    \E k \in 1..Len(held) : Lower(held[k].name) = Lower(name)

\* the recipe as add_recipe stores it: tags defaults to the empty list and
\* date_added is the time of the call
Stored(fields, now) ==
    [date_added |-> now]
    @@ [f \in DOMAIN fields \ {"date_added"} |-> fields[f]]
    @@ [tags |-> <<>>]

\* RecipeBook_add_recipe comparing the names as written
RecipeBook_add_recipe_ExactNames(held, file, recipe, now) ==
    IF recipe.kind # "dict"
    THEN [raised |-> "TypeError", recipes |-> held, file |-> file]
    ELSE IF \E i \in 1..Len(required_fields) :
                required_fields[i] \notin DOMAIN recipe.val
    THEN [raised |-> "KeyError", recipes |-> held, file |-> file]
    ELSE IF \E k \in 1..Len(held) : held[k].name = recipe.val.name
    THEN [raised |-> "ValueError", recipes |-> held, file |-> file]
    ELSE LET added == Append(held, Stored(recipe.val, now))
         IN [raised |-> "none", recipes |-> added, file |-> added]

\* RecipeBook.add_recipe(recipe) on a book of these recipes and this file:
\* the exception raised, and the recipes in memory and in the file after it
RecipeBook_add_recipe(held, file, recipe, now) ==
    IF recipe.kind # "dict"
    THEN [raised |-> "TypeError", recipes |-> held, file |-> file]
    ELSE IF \E i \in 1..Len(required_fields) :
                required_fields[i] \notin DOMAIN recipe.val
    THEN [raised |-> "KeyError", recipes |-> held, file |-> file]
    ELSE IF HasRecipeNamed(held, recipe.val.name)
    THEN [raised |-> "ValueError", recipes |-> held, file |-> file]
    ELSE LET added == Append(held, Stored(recipe.val, now))
         IN [raised |-> "none", recipes |-> added, file |-> added]

\* [r for r in self.recipes if r['name'].lower() != name.lower()]
RECURSIVE WithoutNamed(_, _)
WithoutNamed(held, name) ==
    IF held = <<>> THEN <<>>
    ELSE IF Lower(held[1].name) = Lower(name)
    THEN WithoutNamed(Tail(held), name)
    ELSE <<held[1]>> \o WithoutNamed(Tail(held), name)

\* RecipeBook.remove_recipe(name): the file is written only when a recipe
\* was removed
RecipeBook_remove_recipe(held, file, name) ==
    LET kept == WithoutNamed(held, name) IN
        IF Len(kept) < Len(held)
        THEN [recipes |-> kept, file |-> kept]
        ELSE [recipes |-> kept, file |-> file]

\* the position of the first recipe of this name, ignoring case, or 0
RECURSIVE FirstNamed(_, _, _)
FirstNamed(held, name, k) ==
    IF k > Len(held) THEN 0
    ELSE IF Lower(held[k].name) = Lower(name) THEN k
    ELSE FirstNamed(held, name, k + 1)

\* RecipeBook.update_recipe(name, updated_recipe): the first recipe of that
\* name is replaced by updated_recipe, which keeps its date_added
RecipeBook_update_recipe(held, file, name, updated, now) ==
    LET k == FirstNamed(held, name, 1) IN
        IF updated.kind # "dict"
        THEN [raised |-> "TypeError", returned |-> NoValue,
              recipes |-> held, file |-> file]
        ELSE IF \E i \in 1..Len(required_fields) :
                    required_fields[i] \notin DOMAIN updated.val
        THEN [raised |-> "KeyError", returned |-> NoValue,
              recipes |-> held, file |-> file]
        ELSE IF k = 0
        THEN [raised |-> "none", returned |-> FALSE,
              recipes |-> held, file |-> file]
        ELSE LET dated ==
                     IF "date_added" \in DOMAIN held[k]
                     THEN [date_added |-> held[k].date_added]
                          @@ [f \in DOMAIN updated.val \ {"date_added"} |->
                                 updated.val[f]]
                     ELSE updated.val
                 stamped ==
                     [date_updated |-> now]
                     @@ [f \in DOMAIN dated \ {"date_updated"} |-> dated[f]]
                 replaced == [held EXCEPT ![k] = stamped]
             IN [raised |-> "none", returned |-> TRUE,
                 recipes |-> replaced, file |-> replaced]

\* recipe['tags'], or an empty list for a recipe that has none
TagsOf(recipe) == IF "tags" \in DOMAIN recipe THEN recipe.tags ELSE <<>>

\* the recipe with this list as its tags
WithTags(recipe, tags) ==
    [tags |-> tags] @@ [f \in DOMAIN recipe \ {"tags"} |-> recipe[f]]

\* RecipeBook_add_tag_to_recipe not writing the file
RecipeBook_add_tag_to_recipe_NotSaved(held, file, name, tag) ==
    LET t == Strip(Lower(tag))
        k == FirstNamed(held, name, 1)
    IN  IF t = <<>>
        THEN [raised |-> "ValueError", returned |-> NoValue,
              recipes |-> held, file |-> file]
        ELSE IF k = 0
        THEN [raised |-> "none", returned |-> FALSE,
              recipes |-> held, file |-> file]
        ELSE IF InSeq(t, TagsOf(held[k]))
        THEN [raised |-> "none", returned |-> TRUE,
              recipes |-> [held EXCEPT ![k] = WithTags(@, TagsOf(@))],
              file |-> file]
        ELSE LET tagged == [held EXCEPT ![k] =
                               WithTags(@, Append(TagsOf(@), t))]
             IN [raised |-> "none", returned |-> TRUE,
                 recipes |-> tagged, file |-> file]

\* RecipeBook.add_tag_to_recipe(recipe_name, tag): the tag, lowercased and
\* trimmed, is appended to the tags of the first recipe of that name unless
\* it is among them; the file is written only when it was appended
RecipeBook_add_tag_to_recipe(held, file, name, tag) ==
    LET t == Strip(Lower(tag))
        k == FirstNamed(held, name, 1)
    IN  IF t = <<>>
        THEN [raised |-> "ValueError", returned |-> NoValue,
              recipes |-> held, file |-> file]
        ELSE IF k = 0
        THEN [raised |-> "none", returned |-> FALSE,
              recipes |-> held, file |-> file]
        ELSE IF InSeq(t, TagsOf(held[k]))
        THEN [raised |-> "none", returned |-> TRUE,
              recipes |-> [held EXCEPT ![k] = WithTags(@, TagsOf(@))],
              file |-> file]
        ELSE LET tagged == [held EXCEPT ![k] =
                               WithTags(@, Append(TagsOf(@), t))]
             IN [raised |-> "none", returned |-> TRUE,
                 recipes |-> tagged, file |-> tagged]

\* list.remove(x): the list without the first occurrence of x
RECURSIVE RemoveFirst(_, _)
RemoveFirst(seq, x) ==
    IF seq = <<>> THEN <<>>
    ELSE IF seq[1] = x THEN Tail(seq)
    ELSE <<seq[1]>> \o RemoveFirst(Tail(seq), x)

\* RecipeBook.remove_tag_from_recipe(recipe_name, tag)
RecipeBook_remove_tag_from_recipe(held, file, name, tag) ==
    LET t == Strip(Lower(tag))
        k == FirstNamed(held, name, 1)
    IN  IF k # 0 /\ "tags" \in DOMAIN held[k] /\ InSeq(t, held[k].tags)
        THEN LET untagged == [held EXCEPT ![k] =
                                 WithTags(@, RemoveFirst(@.tags, t))]
             IN [raised |-> "none", returned |-> TRUE,
                 recipes |-> untagged, file |-> untagged]
        ELSE [raised |-> "none", returned |-> FALSE,
              recipes |-> held, file |-> file]

\* [r for r in imported_recipes if r['name'].lower() not in existing_names]
RECURSIVE NewRecipes(_, _)
NewRecipes(imported, held) ==
    IF imported = <<>> THEN <<>>
    ELSE IF HasRecipeNamed(held, imported[1].name)
    THEN NewRecipes(Tail(imported), held)
    ELSE <<imported[1]>> \o NewRecipes(Tail(imported), held)

\* RecipeBook.import_from_json(filepath, merge) on the content of the file
\* at filepath
RecipeBook_import_from_json(held, file, imported, merge) ==
    IF imported.kind = "missing"
    THEN [raised |-> "FileNotFoundError", returned |-> NoValue,
          recipes |-> held, file |-> file]
    ELSE IF imported.kind # "list"
    THEN [raised |-> "ValueError", returned |-> NoValue,
          recipes |-> held, file |-> file]
    ELSE IF merge
    THEN LET new_recipes == NewRecipes(imported.val, held)
             extended == held \o new_recipes
         IN [raised |-> "none", returned |-> Len(new_recipes),
             recipes |-> extended, file |-> extended]
    ELSE [raised |-> "none", returned |-> Len(imported.val),
          recipes |-> imported.val, file |-> imported.val]

\* RecipeBook.get_recipe(name): a copy of the first recipe of that name, or
\* None
RecipeBook_get_recipe(held, name) ==
    LET k == FirstNamed(held, name, 1) IN
        IF k = 0 THEN NoValue ELSE held[k]

\* RecipeBook.search_by_tag(tag): copies of the recipes that have the tag,
\* lowercased and trimmed, among their tags
RECURSIVE RecipeBook_search_by_tag(_, _)
RecipeBook_search_by_tag(held, tag) ==
    IF held = <<>> THEN <<>>
    ELSE (IF "tags" \in DOMAIN held[1]
             /\ InSeq(Strip(Lower(tag)), held[1].tags)
          THEN <<held[1]>> ELSE <<>>)
         \o RecipeBook_search_by_tag(Tail(held), tag)

\* ------------------------------------------------------------------------
\* Specification of the RecipeBook
\* ------------------------------------------------------------------------

Quick == <<"Q", "u", "i", "c", "k">>

FullRecipe(name) ==
    [name |-> name, ingredients |-> <<<<"1", " ", "l", "b", " ", "p", "a", "s", "t", "a">>>>,
     directions |-> <<"B", "o", "i", "l", " ", "p", "a", "s", "t", "a", ".">>]

\* the second arguments of update_recipe
UpdateArgs ==
    {Dict(FullRecipe(name)) : name \in {Pasta, Salad}}
    \cup {Dict([name |-> Salad]), Other}

\* the arguments of the tag methods
TaggedNames == {Lower(Pasta), Salad}

TagArgs == {Quick, Lower(Quick), <<" ">>}

\* the files handed to import_from_json: none, JSON that is not a list, and
\* lists of recipes
ImportFiles == {
    [kind |-> "missing", val |-> <<>>],
    [kind |-> "dict", val |-> <<>>],
    [kind |-> "list", val |-> <<FullRecipe(Lower(Pasta))>>],
    [kind |-> "list",
     val |-> <<FullRecipe(Salad), WithTags(FullRecipe(Salad), <<Quick>>)>>] }

BookNames == {Pasta, Lower(Pasta), Salad}

BookIngredients == <<<<"1", " ", "l", "b", " ", "p", "a", "s", "t", "a">>>>

BookDirections == <<"B", "o", "i", "l", " ", "p", "a", "s", "t", "a", ".">>

\* the arguments of add_recipe: recipes with all the fields, with tags,
\* with fields missing, and a value that is not a dict
BookArgs ==
    {Dict(f) : f \in [name : BookNames, ingredients : {BookIngredients},
                      directions : {BookDirections}]}
    \cup {Dict(f) : f \in [name : {Salad}, ingredients : {BookIngredients},
                            directions : {BookDirections},
                            tags : {<<<<"Q", "u", "i", "c", "k">>>>}]}
    \cup {Dict(f) : f \in [name : BookNames]}
    \cup {Dict(f) : f \in [name : BookNames, directions : {BookDirections}]}
    \cup {Dict([ingredients |-> BookIngredients,
                directions |-> BookDirections])}
    \cup {Other}

\* RecipeBook(filepath) on a path that has no file: _load writes an empty
\* list and the book starts empty
InitBook ==
    /\ AggIdle("RecipeBook")
    /\ TextIdle
    /\ ConvIdle
    /\ shopping_list = <<>>
    /\ CatIdle
    /\ StoreIdle
    /\ book_recipes = <<>>
    /\ book_file = <<>>
    /\ book_op = "none"
    /\ book_arg = Other
    /\ book_exc = "none"
    /\ book_calls = 0
    /\ book_ret = NoValue
    /\ handle = NoValue
    /\ book_before = <<>>
    /\ CompareIdle
    /\ CliIdle

\* the outcome of a call is stored; the clock advances
BookCall(op, arg, res) ==
    /\ book_recipes' = res.recipes
    /\ book_file' = res.file
    /\ book_exc' = res.raised
    /\ book_ret' = res.returned
    /\ book_arg' = arg
    /\ book_op' = op
    /\ book_calls' = book_calls + 1
    /\ UNCHANGED <<handle, book_before>>
    /\ UNCHANGED notBookVars

\* book.add_recipe(recipe)
book_add_recipe ==
    /\ client = "RecipeBook"
    /\ book_calls < MaxOps
    /\ \E recipe \in BookArgs :
          LET res == RecipeBook_add_recipe(book_recipes, book_file, recipe,
                                           book_calls + 1)
          IN /\ book_recipes' = res.recipes
             /\ book_file' = res.file
             /\ book_exc' = res.raised
             /\ book_arg' = recipe
    /\ book_ret' = NoValue
    /\ book_op' = "add_recipe"
    /\ book_calls' = book_calls + 1
    /\ UNCHANGED <<handle, book_before>>
    /\ UNCHANGED notBookVars

\* book.remove_recipe(name)
book_remove_recipe ==
    /\ client = "RecipeBook"
    /\ book_calls < MaxOps
    /\ \E name \in BookNames :
          LET res == RecipeBook_remove_recipe(book_recipes, book_file, name)
          IN /\ book_recipes' = res.recipes
             /\ book_file' = res.file
             /\ book_arg' = [kind |-> "str", val |-> name]
             /\ book_ret' = (Len(res.recipes) < Len(book_recipes))
    /\ book_exc' = "none"
    /\ book_op' = "remove_recipe"
    /\ book_calls' = book_calls + 1
    /\ UNCHANGED <<handle, book_before>>
    /\ UNCHANGED notBookVars

\* book.update_recipe(name, updated_recipe)
book_update_recipe ==
    /\ client = "RecipeBook"
    /\ book_calls < MaxOps
    /\ \E name \in BookNames, updated \in UpdateArgs :
          BookCall("update_recipe", [name |-> name, recipe |-> updated],
                   RecipeBook_update_recipe(book_recipes, book_file, name,
                                            updated, book_calls + 1))

\* book.clear_all()
book_clear_all ==
    /\ client = "RecipeBook"
    /\ book_calls < MaxOps
    /\ BookCall("clear_all", Other,
                [raised |-> "none", returned |-> NoValue,
                 recipes |-> <<>>, file |-> <<>>])

\* book.add_tag_to_recipe(recipe_name, tag)
book_add_tag_to_recipe ==
    /\ client = "RecipeBook"
    /\ book_calls < MaxOps
    /\ \E name \in TaggedNames, tag \in TagArgs :
          BookCall("add_tag_to_recipe", [name |-> name, tag |-> tag],
                   RecipeBook_add_tag_to_recipe(book_recipes, book_file,
                                                name, tag))

\* book.remove_tag_from_recipe(recipe_name, tag)
book_remove_tag_from_recipe ==
    /\ client = "RecipeBook"
    /\ book_calls < MaxOps
    /\ \E name \in TaggedNames, tag \in TagArgs :
          BookCall("remove_tag_from_recipe", [name |-> name, tag |-> tag],
                   RecipeBook_remove_tag_from_recipe(book_recipes, book_file,
                                                     name, tag))

\* book.import_from_json(filepath, merge)
book_import_from_json ==
    /\ client = "RecipeBook"
    /\ book_calls < MaxOps
    /\ \E imported \in ImportFiles, merge \in BOOLEAN :
          BookCall("import_from_json", [file |-> imported, merge |-> merge],
                   RecipeBook_import_from_json(book_recipes, book_file,
                                               imported, merge))

\* RecipeBook(filepath) is constructed again on the same path: recipes is
\* what _load reads from the file
book_reopen ==
    /\ client = "RecipeBook"
    /\ book_calls < MaxOps
    /\ BookCall("RecipeBook", Other,
                [raised |-> "none", returned |-> NoValue,
                 recipes |-> book_file, file |-> book_file])

NextBook ==
    \/ book_add_recipe
    \/ book_remove_recipe
    \/ book_update_recipe
    \/ book_clear_all
    \/ book_add_tag_to_recipe
    \/ book_remove_tag_from_recipe
    \/ book_import_from_json
    \/ book_reopen

SpecBook == InitBook /\ [][NextBook]_vars

\* ------------------------------------------------------------------------
\* Specification of an edit session of the CLI (main.py) on a RecipeBook
\* ------------------------------------------------------------------------

\* dict.copy() of the recipe at position k: a new dict whose lists are the
\* lists of the stored recipe
ShallowCopy(held, k, recipe_name) ==
    [name |-> recipe_name, val |-> held[k], src |-> k,
     shared |-> {"ingredients", "tags"} \cap DOMAIN held[k]]

\* a list of the dict handed out is changed in place: the stored recipe
\* sees the change as long as the dict still holds the stored list
InPlace(held, h, field, list) ==
    IF field \in h.shared
    THEN [held EXCEPT ![h.src] =
             [f \in DOMAIN @ |-> IF f = field THEN list ELSE @[f]]]
    ELSE held

\* the dict handed out with a field set
WithField(h, field, value) ==
    [h EXCEPT !.val = (field :> value)
                      @@ [f \in DOMAIN @ \ {field} |-> @[f]]]

\* list.pop(num - 1)
PopAt(seq, num) == SubSeq(seq, 1, num - 1) \o SubSeq(seq, num + 1, Len(seq))

EditedNames == {Lower(Pasta), Salad}

NewIngredients == {<<"2", " ", "c", "u", "p", "s", " ", "s", "a", "u", "c", "e">>}

NewNames == {Pasta, <<"S", "o", "u", "p">>}

\* the books of an edit session: the recipes of one or two add_recipe calls
EditedBooks ==
    {<<Stored(FullRecipe(Pasta), 1)>>,
     <<Stored(FullRecipe(Pasta), 1),
       Stored(WithTags(FullRecipe(Salad), <<Lower(Quick)>>), 2)>>}

InitEdit ==
    /\ AggIdle("edit")
    /\ TextIdle
    /\ ConvIdle
    /\ shopping_list = <<>>
    /\ CatIdle
    /\ StoreIdle
    /\ book_recipes \in EditedBooks
    /\ book_file = book_recipes
    /\ book_op = "none"
    /\ book_arg = Other
    /\ book_exc = "none"
    /\ book_calls = Len(book_recipes)
    /\ book_ret = NoValue
    /\ handle = NoValue
    /\ book_before = <<>>
    /\ CompareIdle
    /\ CliIdle

\* what a step of the session leaves alone
EditStep(op) ==
    /\ book_op' = op
    /\ book_calls' = book_calls + 1
    /\ UNCHANGED <<book_arg, book_exc, book_ret>>
    /\ UNCHANGED notBookVars

\* view_recipe_details: recipe = self.recipe_book.get_recipe(recipe_name),
\* then 'Edit recipe'
edit_open ==
    /\ client = "edit"
    /\ handle = NoValue
    /\ book_calls < MaxOps + 2
    /\ \E recipe_name \in EditedNames :
          LET k == FirstNamed(book_recipes, recipe_name, 1) IN
              /\ k # 0
              /\ handle' = ShallowCopy(book_recipes, k, recipe_name)
    /\ book_before' = book_recipes
    /\ UNCHANGED <<book_recipes, book_file>>
    /\ EditStep("get_recipe")

\* edit_ingredients, 'Add ingredient': recipe['ingredients'].append(...)
edit_add_ingredient ==
    /\ client = "edit"
    /\ handle # NoValue
    /\ book_calls < MaxOps + 2
    /\ \E new_ingredient \in NewIngredients :
          LET list == Append(handle.val.ingredients, new_ingredient) IN
              /\ handle' = WithField(handle, "ingredients", list)
              /\ book_recipes' = InPlace(book_recipes, handle,
                                         "ingredients", list)
    /\ UNCHANGED <<book_file, book_before>>
    /\ EditStep("add_ingredient")

\* edit_ingredients, 'Remove ingredient': recipe['ingredients'].pop(num - 1)
edit_remove_ingredient ==
    /\ client = "edit"
    /\ handle # NoValue
    /\ book_calls < MaxOps + 2
    /\ \E num \in 1..Len(handle.val.ingredients) :
          LET list == PopAt(handle.val.ingredients, num) IN
              /\ handle' = WithField(handle, "ingredients", list)
              /\ book_recipes' = InPlace(book_recipes, handle,
                                         "ingredients", list)
    /\ UNCHANGED <<book_file, book_before>>
    /\ EditStep("remove_ingredient")

\* edit_ingredients, 'Clear all': recipe['ingredients'] = []
edit_clear_ingredients ==
    /\ client = "edit"
    /\ handle # NoValue
    /\ book_calls < MaxOps + 2
    /\ handle' = [WithField(handle, "ingredients", <<>>)
                     EXCEPT !.shared = @ \ {"ingredients"}]
    /\ UNCHANGED <<book_recipes, book_file, book_before>>
    /\ EditStep("clear_ingredients")

\* edit_recipe_workflow, 'Recipe name': recipe['name'] = new_name unless
\* another recipe of the book has that name
edit_name ==
    /\ client = "edit"
    /\ handle # NoValue
    /\ book_calls < MaxOps + 2
    /\ \E new_name \in NewNames :
          handle' = IF new_name # handle.name
                       /\ HasRecipeNamed(book_recipes, new_name)
                    THEN handle
                    ELSE WithField(handle, "name", new_name)
    /\ UNCHANGED <<book_recipes, book_file, book_before>>
    /\ EditStep("name")

\* edit_recipe_workflow, 'Cancel (discard changes)'
edit_cancel ==
    /\ client = "edit"
    /\ handle # NoValue
    /\ handle' = NoValue
    /\ UNCHANGED <<book_recipes, book_file, book_before>>
    /\ EditStep("cancel")

\* edit_recipe_workflow, 'Save and exit': update_recipe under the same
\* name, remove_recipe and add_recipe under a new one
edit_save ==
    /\ client = "edit"
    /\ handle # NoValue
    /\ LET now == book_calls + 1
           res == IF handle.val.name # handle.name
                  THEN LET removed ==
                               RecipeBook_remove_recipe(book_recipes,
                                   book_file, handle.name)
                       IN RecipeBook_add_recipe(removed.recipes, removed.file,
                                                Dict(handle.val), now)
                  ELSE RecipeBook_update_recipe(book_recipes, book_file,
                           handle.name, Dict(handle.val), now)
       IN /\ book_recipes' = res.recipes
          /\ book_file' = res.file
    /\ handle' = NoValue
    /\ UNCHANGED book_before
    /\ EditStep("save")

NextEdit ==
    \/ edit_open
    \/ edit_add_ingredient
    \/ edit_remove_ingredient
    \/ edit_clear_ingredients
    \/ edit_name
    \/ edit_cancel
    \/ edit_save

SpecEdit == InitEdit /\ [][NextEdit]_vars

\* ------------------------------------------------------------------------
\* models/Store.py and the store methods of models/ShoppingList.py
\* ------------------------------------------------------------------------

\* Store._inventory before load_inventory has set it
NotLoaded == [kind |-> "None", val |-> <<>>]

\* a string returned, and None returned
Returned(v) == [kind |-> "value", val |-> v]

ReturnedNone == [kind |-> "None", val |-> <<>>]

\* CSVStore.load_inventory on the store's file: self._inventory is set to
\* what load_store_data returns, and is left alone when it raises
CSVStore_load_inventory(objects, store, file) ==
    LET loaded == load_store_data(file) IN
        IF loaded.raised # "none"
        THEN [raised |-> loaded.raised, objects |-> objects]
        ELSE [raised |-> "none",
              objects |-> [objects EXCEPT
                              ![store] = [inventory |-> Dict(loaded.inventory)]]]

\* self._items as the dict handed to store.checkout
ItemsDict(its) ==
    [k \in 1..Len(its) |->
        [item |-> its[k].item,
         data |-> [quantity |-> its[k].quantity, unit |-> its[k].unit]]]

\* AbstractStore.checkout: RuntimeError without an inventory, else the
\* result of calculate_shopping_list_total
AbstractStore_checkout(store_object, sl) ==
    IF store_object.inventory.kind = "None"
    THEN [raised |-> "RuntimeError", total |-> 0, itemized |-> <<>>,
          not_found |-> <<>>]
    ELSE calculate_shopping_list_total(sl, store_object.inventory.val)

\* the loop of compare_stores from the store sts[1] on: it ends at the
\* first store without an inventory, with what it has stored until then
RECURSIVE CompareLoop(_, _, _, _)
CompareLoop(comp, objects, its, sts) ==
    IF sts = <<>> THEN [raised |-> "none", comparisons |-> comp]
    ELSE IF objects[sts[1]].inventory.kind = "None"
    THEN [raised |-> "RuntimeError", comparisons |-> comp]
    ELSE LET res == AbstractStore_checkout(objects[sts[1]], ItemsDict(its))
         IN IF res.raised # "none"
            THEN [raised |-> res.raised, comparisons |-> comp]
            ELSE CompareLoop(
                     PutStore(comp, sts[1],
                              [total |-> res.total,
                               items_found |-> Len(res.itemized),
                               items_missing |-> Len(res.not_found),
                               itemized |-> res.itemized,
                               not_found |-> res.not_found]),
                     objects, its, Tail(sts))

\* ShoppingList.compare_stores: self._store_comparisons is emptied, the
\* loop fills it, and the comparisons sorted by total are returned
ShoppingList_compare_stores(objects, its, sts) ==
    LET done == CompareLoop(<<>>, objects, its, sts) IN
        [raised |-> done.raised,
         comparisons |-> done.comparisons,
         returned |-> IF done.raised = "none"
                      THEN Returned(SortedByTotal(done.comparisons))
                      ELSE ReturnedNone]

\* ShoppingList.get_cheapest_store: the first store of the least total,
\* None when nothing has been compared
ShoppingList_get_cheapest_store(comp) ==
    IF comp = <<>> THEN ReturnedNone
    ELSE LET k == CHOOSE i \in 1..Len(comp) :
                      /\ \A j \in 1..Len(comp) :
                             comp[i].summary.total <= comp[j].summary.total
                      /\ \A j \in 1..(i - 1) :
                             comp[j].summary.total > comp[i].summary.total
         IN Returned(comp[k].store)

\* ShoppingList.get_store_comparison: self._store_comparisons.get of the
\* name in lower case
ShoppingList_get_store_comparison(comp, store_name) ==
    LET at == {k \in 1..Len(comp) : comp[k].store = Lower(store_name)} IN
        IF at = {} THEN ReturnedNone
        ELSE Returned(comp[CHOOSE k \in at : TRUE].summary)

\* ------------------------------------------------------------------------
\* Specification of a ShoppingList comparing stores
\* ------------------------------------------------------------------------

\* the store objects handed to compare_stores
ComparedStores == {<<"s", "a", "f", "e", "w", "a", "y">>, <<"g", "i", "a", "n", "t">>}

\* their inventory files: none, or one of two price lists
ComparedFiles == {
    [kind |-> "missing", rows |-> <<>>],
    [kind |-> "csv",
     rows |-> <<[item_name |-> <<"t", "o", "m", "a", "t", "o">>, price |-> 5000]>>],
    [kind |-> "csv",
     rows |-> <<[item_name |-> <<"t", "o", "m", "a", "t", "o", "s">>, price |-> 8900],
                [item_name |-> <<"w", "a", "t", "e", "r", "c", "r", "e", "s", "s">>, price |-> 12500]>>] }

\* the names handed to get_store_comparison
ComparisonNames == ComparedStores \cup {<<"G", "i", "a", "n", "t">>}

\* a ShoppingList after add_ingredient has been called with each line for
\* the recipe 'Cookies'
RECURSIVE ListAfter(_)
ListAfter(lines) ==
    IF lines = <<>> THEN <<>>
    ELSE ListMerge(ListAfter(SubSeq(lines, 1, Len(lines) - 1)),
                   Ingredient(lines[Len(lines)]), <<"C", "o", "o", "k", "i", "e", "s">>)

\* the lists whose stores are compared
ComparedItems == {
    ListAfter(<<>>),
    ListAfter(<<<<"2", " ", "c", "u", "p", "s", " ", "t", "o", "m", "a", "t", "o">>>>),
    ListAfter(<<<<"2", " ", "c", "u", "p", "s", " ", "t", "o", "m", "a", "t", "o">>, <<"2", " ", "c", "u", "p", "s", " ", "w", "a", "t", "e", "r", "c", "r", "e", "s", "s">>>>) }

InitCompare ==
    /\ client = "compare_stores"
    /\ recipe_list = List(<<>>)
    /\ num_servings_dict = Dict(<<>>)
    /\ shopping = <<>>
    /\ ri = 1
    /\ ii = 1
    /\ pc = "call"
    /\ exc = "none"
    /\ items \in ComparedItems
    /\ recipes = IF items = <<>> THEN <<>> ELSE <<<<"C", "o", "o", "k", "i", "e", "s">>>>
    /\ calls = <<>>
    /\ result = "None"
    /\ TextIdle
    /\ ConvIdle
    /\ shopping_list = <<>>
    /\ CatIdle
    /\ store_inventory = <<>>
    /\ wanted = <<>>
    /\ found = NoValue
    /\ priced = NoValue
    /\ files \in [ComparedStores -> ComparedFiles]
    /\ store_list = <<>>
    /\ comparison = <<>>
    /\ si = 1
    /\ ranking = <<>>
    /\ spc = "call"
    /\ BookIdle
    /\ store_objects = [s \in ComparedStores |-> [inventory |-> NotLoaded]]
    /\ store_comparisons = <<>>
    /\ stores = <<>>
    /\ cmp_op = "none"
    /\ cmp_ret = ReturnedNone
    /\ CliIdle

\* what a call of a store method leaves alone
CompareFrame ==
    /\ UNCHANGED <<client, compileVars, listVars>>
    /\ UNCHANGED <<textVars, convVars, shopping_list, catVars, storeVars,
                   bookVars, cliVars>>

\* store.load_inventory()
load_inventory(store) ==
    /\ client = "compare_stores"
    /\ LET res == CSVStore_load_inventory(store_objects, store, files[store])
       IN /\ store_objects' = res.objects
          /\ exc' = res.raised
    /\ cmp_op' = "load_inventory"
    /\ cmp_ret' = ReturnedNone
    /\ UNCHANGED <<store_comparisons, stores>>
    /\ CompareFrame

\* sl.compare_stores(sts)
compare_stores(sts) ==
    /\ client = "compare_stores"
    /\ LET res == ShoppingList_compare_stores(store_objects, items, sts)
       IN /\ store_comparisons' = res.comparisons
          /\ exc' = res.raised
          /\ cmp_ret' = res.returned
    /\ stores' = sts
    /\ cmp_op' = "compare_stores"
    /\ UNCHANGED store_objects
    /\ CompareFrame

\* sl.get_cheapest_store()
get_cheapest_store ==
    /\ client = "compare_stores"
    /\ cmp_ret' = ShoppingList_get_cheapest_store(store_comparisons)
    /\ exc' = "none"
    /\ cmp_op' = "get_cheapest_store"
    /\ UNCHANGED <<store_objects, store_comparisons, stores>>
    /\ CompareFrame

\* sl.get_store_comparison(store_name)
get_store_comparison(store_name) ==
    /\ client = "compare_stores"
    /\ cmp_ret' = ShoppingList_get_store_comparison(store_comparisons,
                                                    store_name)
    /\ exc' = "none"
    /\ cmp_op' = "get_store_comparison"
    /\ UNCHANGED <<store_objects, store_comparisons, stores>>
    /\ CompareFrame

NextCompare ==
    \/ \E store \in ComparedStores : load_inventory(store)
    \/ \E sts \in SeqsUpTo(ComparedStores, MaxStores) : compare_stores(sts)
    \/ get_cheapest_store
    \/ \E store_name \in ComparisonNames : get_store_comparison(store_name)

SpecCompare == InitCompare /\ [][NextCompare]_vars

\* ------------------------------------------------------------------------
\* Specification of the two aggregators given the same recipes
\* ------------------------------------------------------------------------

\* the loop over the ingredients of one recipe in compile_shopping_list
RECURSIVE CompileLines(_, _, _, _)
CompileLines(shop, lines, name, servings) ==
    IF lines = <<>> THEN shop
    ELSE LET p == _simple_parse(lines[1])
         IN CompileLines(CompileMerge(shop, p.item, p.unit,
                                      ScaledQty(p.quantity, servings), name),
                         Tail(lines), name, servings)

\* the loop over the recipes in compile_shopping_list
RECURSIVE CompileRecipes(_, _, _)
CompileRecipes(shop, rl, sd) ==
    IF rl = <<>> THEN shop
    ELSE IF rl[1].ingredients.kind # "list"
    THEN CompileRecipes(shop, Tail(rl), sd)
    ELSE CompileRecipes(
             CompileLines(shop, rl[1].ingredients.val, rl[1].name,
                          ServingsFor(sd, rl[1].name)),
             Tail(rl), sd)

\* compile_shopping_list on a list of recipes and a dict of servings
compile_shopping_list(rl, sd) == RoundAll(CompileRecipes(<<>>, rl, sd))

\* the loop of ShoppingList.add_recipe: each line becomes an Ingredient,
\* its quantity is scaled, and add_ingredient takes it
RECURSIVE AddLines(_, _, _, _)
AddLines(list, lines, recipe_name, servings) ==
    IF lines = <<>> THEN list
    ELSE LET parsed_line == Ingredient(lines[1])
             ingredient == [parsed_line EXCEPT !.quantity = @ * servings]
         IN AddLines([items |-> ListMerge(list.items, ingredient, recipe_name),
                      recipes |-> TrackRecipe(list.recipes, recipe_name)],
                     Tail(lines), recipe_name, servings)

\* ShoppingList.add_recipe on a parser holding a recipe name and its lines
ShoppingList_add_recipe(list, recipe_name, lines, servings) ==
    IF servings < 1 THEN [raised |-> "ValueError", list |-> list]
    ELSE IF lines # <<>> /\ IsBlank(recipe_name)
    THEN [raised |-> "ValueError", list |-> list]
    ELSE [raised |-> "none",
          list |-> AddLines(list, lines, recipe_name, servings)]

\* the recipes handed to both aggregators: lists of recipes whose
\* ingredients are lists
AgreedRecipeLists ==
    {rl \in RecipeLists :
        /\ rl.kind = "list"
        /\ \A k \in 1..Len(rl.val) : rl.val[k].ingredients.kind = "list"}

InitAgree ==
    /\ client = "both"
    /\ recipe_list \in AgreedRecipeLists
    /\ num_servings_dict = Dict(Pasta :> 2)
    /\ shopping = <<>>
    /\ ri = 1
    /\ ii = 1
    /\ pc = "call"
    /\ exc = "none"
    /\ items = <<>>
    /\ recipes = <<>>
    /\ calls = <<>>
    /\ result = "None"
    /\ TextIdle
    /\ ConvIdle
    /\ shopping_list = <<>>
    /\ CatIdle
    /\ StoreIdle
    /\ BookIdle
    /\ CompareIdle
    /\ CliIdle

\* shopping = compile_shopping_list(recipe_list, num_servings_dict)
agree_compile ==
    /\ client = "both"
    /\ pc = "call"
    /\ shopping' = compile_shopping_list(recipe_list.val,
                                         num_servings_dict.val)
    /\ pc' = "done"
    /\ UNCHANGED <<client, recipe_list, num_servings_dict, ri, ii, exc>>
    /\ UNCHANGED listVars
    /\ UNCHANGED notAggVars

\* sl.add_recipe(parser, servings) for the next recipe of recipe_list
agree_add_recipe ==
    /\ client = "both"
    /\ ri <= Len(recipe_list.val)
    /\ LET res == ShoppingList_add_recipe(
                      [items |-> items, recipes |-> recipes],
                      CurrentRecipe.name, CurrentRecipe.ingredients.val,
                      ServingsFor(num_servings_dict.val, CurrentRecipe.name))
       IN /\ items' = res.list.items
          /\ recipes' = res.list.recipes
          /\ exc' = res.raised
    /\ ri' = ri + 1
    /\ UNCHANGED <<client, recipe_list, num_servings_dict, shopping, ii, pc,
                   calls, result>>
    /\ UNCHANGED notAggVars

NextAgree ==
    \/ agree_compile
    \/ agree_add_recipe

SpecAgree == InitAgree /\ [][NextAgree]_vars

\* ------------------------------------------------------------------------
\* main.py: the shopping lists of a session of CornucopiaApp
\* ------------------------------------------------------------------------

\* the number of lists add_to_history keeps
HistoryKept == 5

\* self.current_shopping_list before a list has been created
NoList == [kind |-> "None", val |-> <<>>]

\* no list has been handed to a comparison or to an export
NothingUsed == [by |-> "none", shopping_list |-> <<>>, recipe_names |-> <<>>]

\* not self.current_shopping_list is False: the list is neither None nor
\* empty
HasCurrentList(current) == current.kind = "dict" /\ current.val # <<>>

\* history[:n]
FirstN(history, n) ==
    IF Len(history) <= n THEN history ELSE SubSeq(history, 1, n)

\* add_to_history putting the entry at the end of the history
add_to_history_AtTheEnd(history, selected, servings, list, now) ==
    FirstN(Append(history,
                  [timestamp |-> now,
                   recipe_names |-> [k \in 1..Len(selected) |->
                                        selected[k].name],
                   servings |-> servings,
                   total_items |-> Len(list),
                   shopping_list |-> list]),
           HistoryKept)

\* add_to_history: the entry is inserted at the front and the first
\* HistoryKept entries are kept
add_to_history(history, selected, servings, list, now) ==
    FirstN(<<[timestamp |-> now,
              recipe_names |-> [k \in 1..Len(selected) |->
                                   selected[k].name],
              servings |-> servings,
              total_items |-> Len(list),
              shopping_list |-> list]>> \o history,
           HistoryKept)

\* what export_current_list hands to export_shopping_list
CurrentExport(current, history) ==
    [by |-> "export_current_list",
     shopping_list |-> current.val,
     recipe_names |-> IF history # <<>> THEN history[1].recipe_names
                      ELSE <<>>]

\* ------------------------------------------------------------------------
\* Specification of a session of the command line program
\* ------------------------------------------------------------------------

\* what the user selects in create_shopping_list_workflow: no recipe, a
\* recipe at two servings, another at one, and a recipe whose ingredients
\* have been cleared
Selections == {
    [recipes |-> <<>>, servings |-> <<>>],
    [recipes |-> <<[name |-> Pasta,
                    ingredients |-> List(<<<<"2", " ", "c", "u", "p", "s", " ", "t", "o", "m", "a", "t", "o">>>>)]>>,
     servings |-> (Pasta :> 2)],
    [recipes |-> <<[name |-> Salad,
                    ingredients |-> List(<<<<"1", " ", "l", "b", " ", "F", "r", "e", "s", "h", " ", "T", "o", "m", "a", "t", "o", "e", "s">>>>)]>>,
     servings |-> (Salad :> 1)],
    [recipes |-> <<[name |-> Pasta, ingredients |-> List(<<>>)]>>,
     servings |-> (Pasta :> 1)] }

InitCli ==
    /\ AggIdle("cli")
    /\ TextIdle
    /\ ConvIdle
    /\ shopping_list = <<>>
    /\ CatIdle
    /\ StoreIdle
    /\ BookIdle
    /\ CompareIdle
    /\ current_shopping_list = NoList
    /\ shopping_history = <<>>
    /\ clock = 0
    /\ used = NothingUsed

\* what a step of the session leaves alone
CliFrame ==
    /\ UNCHANGED aggVars
    /\ UNCHANGED <<textVars, convVars, shopping_list, catVars, storeVars,
                   bookVars, cmpVars>>

\* create_shopping_list_workflow: nothing happens when no recipe was
\* selected; else the list is compiled, made current and added to the
\* history, and exported when the user asks for it
create_shopping_list_workflow(selection, export_now) ==
    /\ client = "cli"
    /\ clock < MaxLists
    /\ IF selection.recipes = <<>>
       THEN UNCHANGED <<current_shopping_list, shopping_history, clock, used>>
       ELSE LET list == compile_shopping_list(selection.recipes,
                                              selection.servings)
                history == add_to_history(shopping_history, selection.recipes,
                                          selection.servings, list, clock + 1)
            IN /\ current_shopping_list' = Dict(list)
               /\ shopping_history' = history
               /\ clock' = clock + 1
               /\ used' = IF export_now /\ HasCurrentList(Dict(list))
                          THEN CurrentExport(Dict(list), history)
                          ELSE used
    /\ CliFrame

\* compare_prices_workflow hands the current list to compare_store_totals
compare_prices_workflow ==
    /\ client = "cli"
    /\ used' = IF HasCurrentList(current_shopping_list)
               THEN [by |-> "compare_prices_workflow",
                     shopping_list |-> current_shopping_list.val,
                     recipe_names |-> <<>>]
               ELSE used
    /\ UNCHANGED <<current_shopping_list, shopping_history, clock>>
    /\ CliFrame

\* export_shopping_list_workflow exports the list of the history the user
\* selects by its number
export_shopping_list_workflow(selection) ==
    /\ client = "cli"
    /\ used' = IF selection - 1 >= 0 /\ selection - 1 < Len(shopping_history)
               THEN [by |-> "export_shopping_list_workflow",
                     shopping_list |-> shopping_history[selection].shopping_list,
                     recipe_names |-> shopping_history[selection].recipe_names]
               ELSE used
    /\ UNCHANGED <<current_shopping_list, shopping_history, clock>>
    /\ CliFrame

\* export_current_list
export_current_list ==
    /\ client = "cli"
    /\ used' = IF HasCurrentList(current_shopping_list)
               THEN CurrentExport(current_shopping_list, shopping_history)
               ELSE used
    /\ UNCHANGED <<current_shopping_list, shopping_history, clock>>
    /\ CliFrame

NextCli ==
    \/ \E selection \in Selections, export_now \in BOOLEAN :
           create_shopping_list_workflow(selection, export_now)
    \/ compare_prices_workflow
    \/ \E selection \in 0..(HistoryKept + 1) :
           export_shopping_list_workflow(selection)
    \/ export_current_list

SpecCli == InitCli /\ [][NextCli]_vars

\* ------------------------------------------------------------------------
\* What has been contributed so far, read from the arguments and the calls
\* ------------------------------------------------------------------------

\* the multiplier of a recipe: its entry in the servings mapping, 1.0 for a
\* name absent from it
Multiplier(name) ==
    IF name \in DOMAIN num_servings_dict.val
    THEN num_servings_dict.val[name]
    ELSE 1

\* the lines of recipe r the loop has gone through
SeenLines(r) ==
    IF recipe_list.val[r].ingredients.kind # "list" THEN 0
    ELSE IF r < ri THEN Len(recipe_list.val[r].ingredients.val)
    ELSE IF r = ri THEN ii - 1
    ELSE 0

\* one sighting: line l of recipe r as parsed, with its quantity times the
\* recipe's multiplier
SightingAt(r, l) ==
    LET rec == recipe_list.val[r]
        p   == _simple_parse(rec.ingredients.val[l])
    IN [item |-> p.item, unit |-> p.unit,
        quantity |-> p.quantity * Multiplier(rec.name), name |-> rec.name]

RECURSIVE SightingsUpTo(_)
SightingsUpTo(r) ==
    IF r = 0 THEN <<>>
    ELSE SightingsUpTo(r - 1) \o [l \in 1..SeenLines(r) |-> SightingAt(r, l)]

\* the sightings compile_shopping_list has merged, in the order supplied
CompileSightings ==
    IF recipe_list.kind = "list" /\ pc \in {"loop", "done"}
    THEN SightingsUpTo(IF ri <= Len(recipe_list.val) THEN ri
                       ELSE Len(recipe_list.val))
    ELSE <<>>

\* the call that last removed key k from the ShoppingList; 0 when none did
LastRemoval(k) ==
    LET hits == {i \in 1..Len(calls) :
                    /\ calls[i].op = "remove_item"
                    /\ calls[i].returned = "True"
                    /\ normalize_ingredient_name(calls[i].name) = k}
    IN IF hits = {} THEN 0 ELSE CHOOSE i \in hits : \A j \in hits : j <= i

RECURSIVE Filter(_, _, _)
Filter(seq, k, from) ==
    IF seq = <<>> THEN <<>>
    ELSE IF from <= 0 /\ seq[1].op = "add_ingredient" /\ seq[1].ingredient.item = k
         THEN <<[item |-> k, unit |-> seq[1].ingredient.unit,
                 quantity |-> seq[1].ingredient.quantity,
                 name |-> seq[1].name]>> \o Filter(Tail(seq), k, from - 1)
         ELSE Filter(Tail(seq), k, from - 1)

\* the add_ingredient calls that contributed to the entry now under key k
ListSightings(k) == Filter(calls, k, LastRemoval(k))

RECURSIVE ItemSightings(_, _)
ItemSightings(seq, k) ==
    IF seq = <<>> THEN <<>>
    ELSE IF seq[1].item = k THEN <<seq[1]>> \o ItemSightings(Tail(seq), k)
    ELSE ItemSightings(Tail(seq), k)

\* the contributions to the entry under key k, oldest first
Contributions(k) ==
    IF client = "compile" THEN ItemSightings(CompileSightings, k)
    ELSE ListSightings(k)

\* the aggregated map of the client at hand
Entries == IF client = "compile" THEN shopping ELSE items

RECURSIVE SumQuantity(_)
SumQuantity(seq) ==
    IF seq = <<>> THEN 0 ELSE seq[1].quantity + SumQuantity(Tail(seq))

\* the names of a sequence of contributions, each kept at its first place
RECURSIVE FirstNames(_, _)
FirstNames(seq, acc) ==
    IF seq = <<>> THEN acc
    ELSE FirstNames(Tail(seq),
                    IF \E i \in 1..Len(acc) : acc[i] = seq[1].name
                    THEN acc ELSE Append(acc, seq[1].name))

SameUnit(seq) == \A i, j \in 1..Len(seq) : seq[i].unit = seq[j].unit

CompileDone == client = "compile" /\ pc = "done"

\* ------------------------------------------------------------------------
\* Claims about the aggregators (specification Spec)
\* ------------------------------------------------------------------------

\* C1 (as stated): when compile_shopping_list returns, every item all of
\* whose sightings carry the same unit has as quantity exactly the sum of
\* line quantity x servings multiplier over its sightings (multiplier 1.0
\* for a recipe name absent from the mapping).
C1_SumExact ==
    CompileDone =>
        \A i \in 1..Len(shopping) :
            LET c == Contributions(shopping[i].item) IN
                SameUnit(c) => shopping[i].quantity = SumQuantity(c)

\* C1 (amended): when compile_shopping_list returns, every sighted item has
\* an entry, and every item all of whose sightings carry the same unit has
\* as quantity the sum of line quantity x servings multiplier over its
\* sightings, rounded to 3 decimal places.
C1_SumRounded ==
    CompileDone =>
        /\ \A j \in 1..Len(CompileSightings) :
               CompileSightings[j].item \in Keys(shopping)
        /\ \A i \in 1..Len(shopping) :
               LET c == Contributions(shopping[i].item) IN
                   SameUnit(c) => shopping[i].quantity = Round3(SumQuantity(c))

\* C1 witness: a returned list holds an item sighted at least twice, always
\* in the same unit, one sighting scaled by a multiplier above 1.
C1_Witness ==
    /\ CompileDone
    /\ \E i \in 1..Len(shopping) :
           LET c == Contributions(shopping[i].item) IN
               /\ Len(c) >= 2
               /\ SameUnit(c)
               /\ \E j \in 1..Len(c) : Multiplier(c[j].name) > 1
               /\ shopping[i].quantity > 0

\* the quantity the claim of C2 gives an entry: the first contribution's
\* quantity plus, for each later one, its quantity converted to the stored
\* unit
RECURSIVE ConvertedSum(_, _)
ConvertedSum(seq, stored_unit) ==
    IF seq = <<>> THEN 0
    ELSE (IF seq[1].unit = stored_unit THEN seq[1].quantity
          ELSE convert_units(seq[1].quantity, seq[1].unit, stored_unit))
         + ConvertedSum(Tail(seq), stored_unit)

\* the notes the mismatching contributions of an entry call for, in order
RECURSIVE MismatchNotes(_, _)
MismatchNotes(seq, stored_unit) ==
    IF seq = <<>> THEN <<>>
    ELSE (IF seq[1].unit = stored_unit THEN <<>>
          ELSE <<[kept |-> stored_unit, saw |-> seq[1].unit]>>)
         \o MismatchNotes(Tail(seq), stored_unit)

HasNotes(entry) == "notes" \in DOMAIN entry /\ entry.notes # <<>>

C3_KeysNormalized ==
    /\ CompileDone =>
           Keys(shopping) =
               {normalize_ingredient_name(CompileSightings[j].item) :
                    j \in 1..Len(CompileSightings)}
    /\ client = "ShoppingList" =>
           \A i \in 1..Len(items) :
               items[i].item = normalize_ingredient_name(items[i].item)

\* the recipes list of every entry is what its contributions call for
RecipesInOrder(entry) ==
    LET c == Contributions(entry.item) IN
        /\ entry.recipes # <<>>
        /\ \A a, b \in 1..Len(entry.recipes) :
               entry.recipes[a] = entry.recipes[b] => a = b
        /\ entry.recipes = FirstNames(c, <<>>)

\* C4: in every aggregated item, after any sequence of contributions, the
\* recipes list is non-empty, holds no recipe name twice, and lists the
\* contributing recipe names in order of first contribution.
C4_RecipesOrdered ==
    \A i \in 1..Len(Entries) : RecipesInOrder(Entries[i])

\* C4 witness: an entry to which one recipe contributed twice and another
\* recipe once.
C4_Witness ==
    \E i \in 1..Len(Entries) :
        /\ Len(Contributions(Entries[i].item)) >= 3
        /\ Len(Entries[i].recipes) = 2

\* C5: the unit stored for an aggregated item is the unit of its first
\* sighting, whatever units the later contributions carry.
C5_FirstUnitKept ==
    \A i \in 1..Len(Entries) :
        LET c == Contributions(Entries[i].item) IN
            c # <<>> /\ Entries[i].unit = c[1].unit

\* C5 witness: an entry whose last contribution carries another unit than
\* its first.
C5_Witness ==
    \E i \in 1..Len(Entries) :
        LET c == Contributions(Entries[i].item) IN
            Len(c) >= 2 /\ c[Len(c)].unit # c[1].unit

SomeIngredientsNotAList ==
    /\ recipe_list.kind = "list"
    /\ \E r \in 1..Len(recipe_list.val) :
           recipe_list.val[r].ingredients.kind # "list"

\* C6 (as stated): a recipe list that is not a list, a servings mapping
\* that is not a mapping and a recipe whose ingredients field is not a list
\* each make the call fail: the call has failed once entered with either
\* argument of the wrong type, and it never returns normally when a recipe's
\* ingredients are not a list.
C6_AllInvalidInputFails ==
    client = "compile" /\ pc # "call" =>
        /\ (recipe_list.kind # "list" \/ num_servings_dict.kind # "dict")
               => pc = "raised"
        /\ SomeIngredientsNotAList => pc # "done"

\* C6 (amended): a recipe list that is not a list and a servings mapping
\* that is not a mapping each make the call fail with TypeError before
\* anything is aggregated; a recipe whose ingredients field is not a list
\* does not make the call fail: it is skipped, and the items of the other
\* recipes are aggregated.
C6_ArgumentsFail_RecipeSkipped ==
    client = "compile" /\ pc # "call" =>
        /\ (recipe_list.kind # "list" \/ num_servings_dict.kind # "dict")
               => pc = "raised" /\ exc = "TypeError" /\ shopping = <<>>
        /\ (recipe_list.kind = "list" /\ num_servings_dict.kind = "dict")
               => /\ pc \in {"loop", "done"}
                  /\ exc = "none"
                  /\ Keys(shopping) = {CompileSightings[j].item :
                                           j \in 1..Len(CompileSightings)}

\* C6 witness: the call returned a non-empty list although the ingredients
\* of one of the recipes were not a list.
C6_Witness ==
    /\ CompileDone
    /\ SomeIngredientsNotAList
    /\ shopping # <<>>

\* ------------------------------------------------------------------------
\* Claims about the parser and the normalizer (under SpecText)
\* ------------------------------------------------------------------------

\* the whitespace-separated tokens of the line that was parsed
TextTokens == Split(text)

FirstIsNumber == TextTokens # <<>> /\ IsFloat(TextTokens[1])

\* the text the token rules designate as the item
RuleItem ==
    IF FirstIsNumber /\ Len(TextTokens) >= 3
    THEN Join(SubSeq(TextTokens, 3, Len(TextTokens)))
    ELSE IF FirstIsNumber /\ Len(TextTokens) = 2 THEN TextTokens[2]
    ELSE Strip(text)

\* the preparation keywords occurring in a lowercased text, by table index
KeywordsIn(low) == {i \in 1..Len(prep_words) : Contains(low, prep_words[i])}

FirstKeyword(low) ==
    CHOOSE i \in KeywordsIn(low) : \A j \in KeywordsIn(low) : i <= j

\* a text lowercased, with the first keyword of the table found in it removed
WithoutKeyword(txt) ==
    LET low == Lower(txt) IN
        IF KeywordsIn(low) = {} THEN low
        ELSE Strip(Remove(low, prep_words[FirstKeyword(low)]))

KeywordOf(txt) ==
    LET low == Lower(txt) IN
        IF KeywordsIn(low) = {} THEN None ELSE prep_words[FirstKeyword(low)]

\* quantity and unit by the token rules
RuleQuantityUnit ==
    /\ FirstIsNumber => parsed.quantity = FloatOf(TextTokens[1])
    /\ FirstIsNumber /\ Len(TextTokens) >= 3
        => parsed.unit = Lower(TextTokens[2])
    /\ FirstIsNumber /\ Len(TextTokens) = 2 => parsed.unit = each
    /\ ~FirstIsNumber => parsed.quantity = 1 * Scale /\ parsed.unit = each

\* C7 as stated: for a line with a numeric first token the quantity is that
\* number, with 3 or more tokens the second token lowercased is the unit and
\* the remaining tokens are the item, with 2 tokens the unit is 'each' and
\* the second token is the item; otherwise quantity 1.0, unit 'each' and the
\* whole line is the item.  (The item is compared without regard to case.)
C7_TokensFormItem ==
    tpc = "parsed" /\ TextTokens # <<>>
        => /\ RuleQuantityUnit
           /\ Len(TextTokens) >= 2 \/ ~FirstIsNumber
                => parsed.item = Lower(RuleItem)

\* C7: quantity and unit follow the token rules, and the item is the text
\* the rules designate, lowercased, with the first preparation keyword
\* found in it (diced, chopped, minced, sliced, in that order) removed and
\* reported as preparation.
C7_TokenRulesItemWithoutKeyword ==
    tpc = "parsed" /\ TextTokens # <<>>
        => /\ RuleQuantityUnit
           /\ Len(TextTokens) >= 2 \/ ~FirstIsNumber
                => /\ parsed.item = WithoutKeyword(RuleItem)
                   /\ parsed.preparation = KeywordOf(RuleItem)

\* a line of three or more tokens with a numeric first token and a
\* preparation keyword among the words of the item has been parsed
C7_Witness ==
    /\ tpc = "parsed"
    /\ FirstIsNumber
    /\ Len(TextTokens) >= 3
    /\ parsed.preparation # None
    /\ parsed.item # <<>>

Zero == [quantity |-> 0, unit |-> each, item |-> <<>>, preparation |-> None]

\* C8: parsing an empty line or a line of whitespace only returns quantity
\* 0, unit 'each', the empty item and no preparation.
C8_BlankLineIsZero ==
    tpc = "parsed" /\ TextTokens = <<>> => parsed = Zero

\* a token of the form digits/digits with a non-zero denominator
SlashAt(tok) == {i \in 1..Len(tok) : tok[i] = "/"}

IsWhole(tok) == tok # <<>> /\ \A i \in 1..Len(tok) : tok[i] \in Digits

IsFraction(tok) ==
    /\ Cardinality(SlashAt(tok)) = 1
    /\ LET i == CHOOSE j \in SlashAt(tok) : TRUE IN
        /\ IsWhole(SubSeq(tok, 1, i - 1))
        /\ IsWhole(SubSeq(tok, i + 1, Len(tok)))
        /\ DigitsValue(SubSeq(tok, i + 1, Len(tok))) > 0

\* its value, in units of 1/Scale
FractionOf(tok) ==
    LET i == CHOOSE j \in SlashAt(tok) : TRUE IN
        (DigitsValue(SubSeq(tok, 1, i - 1)) * Scale)
            \div DigitsValue(SubSeq(tok, i + 1, Len(tok)))

\* C9: a line starting with a simple fraction has that fraction as quantity,
\* a line starting with a whole number and a fraction has their sum, and the
\* unit is the token after the quantity ('1 1/2 tsp vanilla' gives 1.5 tsp,
\* '1/2 cup sugar' gives 0.5 cup).
C9_FractionsRead ==
    tpc = "parsed" =>
        /\ Len(TextTokens) >= 3 /\ IsFraction(TextTokens[1])
            => /\ parsed.quantity = FractionOf(TextTokens[1])
               /\ parsed.unit = Lower(TextTokens[2])
        /\ Len(TextTokens) >= 4 /\ IsWhole(TextTokens[1])
                /\ IsFraction(TextTokens[2])
            => /\ parsed.quantity = DigitsValue(TextTokens[1]) * Scale
                                        + FractionOf(TextTokens[2])
               /\ parsed.unit = Lower(TextTokens[3])

\* C10: normalizing a name that normalize_ingredient_name returned gives the
\* same name.
C10_NormalizeIdempotent ==
    tpc = "renamed" => name2 = name1

\* ------------------------------------------------------------------------
\* Claims about the unit converter (under SpecConvert)
\* ------------------------------------------------------------------------

\* the two unit families, with the size of each unit in thirds of a
\* tablespoon (volume) and in ounces (weight)
VolumeSize ==
    (<<"c", "u", "p">> :> 48) @@ (<<"c", "u", "p", "s">> :> 48) @@
    (<<"t", "b", "s", "p">> :> 3) @@ (<<"t", "a", "b", "l", "e", "s", "p", "o", "o", "n">> :> 3) @@
    (<<"t", "s", "p">> :> 1) @@ (<<"t", "e", "a", "s", "p", "o", "o", "n">> :> 1)

WeightSize ==
    (<<"l", "b">> :> 16) @@ (<<"p", "o", "u", "n", "d">> :> 16) @@
    (<<"o", "z">> :> 1) @@ (<<"o", "u", "n", "c", "e">> :> 1)

SameFamily(a, b) ==
    \/ a \in DOMAIN VolumeSize /\ b \in DOMAIN VolumeSize
    \/ a \in DOMAIN WeightSize /\ b \in DOMAIN WeightSize

SizeOf(u) == IF u \in DOMAIN VolumeSize THEN VolumeSize[u] ELSE WeightSize[u]

Abs(x) == IF x < 0 THEN 0 - x ELSE x

\* C11 as stated: for units a, b of one family, converting a quantity from
\* a to b and back gives the quantity to within a hundredth, the step of the
\* 2-decimal rounding.
C11_RoundTripWithinAHundredth ==
    cpc = "returned" /\ SameFamily(unit_a, unit_b)
        => Abs(back - amount) * 100 <= Scale

\* C11: for units a, b of one family, converting a quantity q from a to b
\* and back gives q to within 0.005 x (1 + size(b) / size(a)): half a
\* hundredth for each of the two roundings, the first one carried back into
\* the unit a.
C11_RoundTripWithinScaledTolerance ==
    cpc = "returned" /\ SameFamily(unit_a, unit_b)
        => Abs(back - amount) * 200 * SizeOf(unit_a)
               <= Scale * (SizeOf(unit_a) + SizeOf(unit_b))

\* a quantity converted into a larger unit of its family came back changed
C11_Witness ==
    /\ cpc = "returned"
    /\ SameFamily(unit_a, unit_b)
    /\ SizeOf(unit_a) < SizeOf(unit_b)
    /\ there > 0
    /\ back # amount

\* C12: convert returns the quantity it was given, unrounded, whenever the
\* two units are equal ignoring case or are not both members of one family.
C12_UnsupportedPairPassesThrough ==
    /\ cpc # "start"
    /\ \/ Lower(unit_a) = Lower(unit_b)
       \/ ~SameFamily(Lower(unit_a), Lower(unit_b))
    => there = amount

\* a quantity of more than 2 decimals went through a pair of units of
\* different families, or through a pair equal up to case
C12_Witness ==
    /\ cpc = "converted"
    /\ amount % (Scale \div 100) # 0
    /\ there = amount
    /\ \/ /\ Lower(unit_a) \in DOMAIN VolumeSize
          /\ Lower(unit_b) \in DOMAIN WeightSize
       \/ /\ unit_a # unit_b
          /\ Lower(unit_a) = Lower(unit_b)

\* ------------------------------------------------------------------------
\* Claims about group_items_by_category (under SpecCategorize)
\* ------------------------------------------------------------------------

\* the categories of the returned dict that hold an entry
HoldersOf(entry) ==
    {k \in 1..Len(grouped) :
        \E n \in 1..Len(grouped[k].items) : grouped[k].items[n] = entry}

RECURSIVE SizeSum(_)
SizeSum(cats) ==
    IF cats = <<>> THEN 0 ELSE Len(cats[1].items) + SizeSum(Tail(cats))

\* C13: when group_items_by_category has returned, each item of the
\* shopping list is, with its record, in exactly one category of the result,
\* the sizes of the categories sum to the length of the list, and no step of
\* the function changes the list.
C13_NothingDroppedOrDuplicated ==
    /\ [](kpc = "done" =>
            /\ \A i \in 1..Len(shopping_list) :
                   Cardinality(HoldersOf(shopping_list[i])) = 1
            /\ SizeSum(grouped) = Len(shopping_list))
    /\ [][shopping_list' = shopping_list]_vars

\* a list of two items was grouped, one of them under 'Other'
C13_Witness ==
    /\ kpc = "done"
    /\ Len(shopping_list) >= 2
    /\ \E k \in 1..Len(grouped) : grouped[k].category = "Other"
    /\ Len(grouped) >= 2

\* the categories of the table one of whose keywords occurs in a name
Matching(item_lower) ==
    {k \in 1..Len(CATEGORY_MAP) :
        \E w \in CATEGORY_MAP[k].keywords : Contains(item_lower, w)}

\* the category the claim assigns: the matching one that comes first in the
\* table, 'Other' when none matches
Assigned(item_name) ==
    LET hits == Matching(Lower(item_name)) IN
        IF hits = {} THEN "Other"
        ELSE CATEGORY_MAP[CHOOSE k \in hits : \A h \in hits : k <= h].category

TableOrder ==
    <<"Produce", "Dairy", "Meat & Seafood", "Canned Goods", "Pasta & Grains",
      "Spices & Seasonings", "Baking", "Condiments & Sauces", "Frozen",
      "Beverages">>

\* C14: the table lists the ten categories in the stated order; when
\* group_items_by_category has returned, every item is held by the first
\* category of the table one of whose keywords is a substring of its
\* lowercase name, by 'Other' when there is none, and the result holds no
\* empty category.
C14_FirstMatchInTableOrder ==
    /\ [k \in 1..Len(CATEGORY_MAP) |-> CATEGORY_MAP[k].category] = TableOrder
    /\ kpc = "done" =>
           /\ \A i \in 1..Len(shopping_list) :
                  \A k \in HoldersOf(shopping_list[i]) :
                      grouped[k].category = Assigned(shopping_list[i].item)
           /\ \A i \in 1..Len(shopping_list) :
                  HoldersOf(shopping_list[i]) # {}
           /\ \A k \in 1..Len(grouped) : grouped[k].items # <<>>

\* an item whose name holds keywords of two categories, and an item whose
\* name holds none, were grouped
C14_Witness ==
    /\ kpc = "done"
    /\ \E i \in 1..Len(shopping_list) :
           Cardinality(Matching(Lower(shopping_list[i].item))) >= 2
    /\ \E i \in 1..Len(shopping_list) :
           Matching(Lower(shopping_list[i].item)) = {}


\* ------------------------------------------------------------------------
\* Claims about the store functions
\* ------------------------------------------------------------------------

\* calculate_shopping_list_total has returned
Priced == client = "calculate_shopping_list_total" /\ spc = "done"

\* positions of an item among the itemized entries and in not_found
ItemizedAt(name) ==
    {k \in 1..Len(priced.itemized) : priced.itemized[k].item = name}

NotFoundAt(name) ==
    {k \in 1..Len(priced.not_found) : priced.not_found[k] = name}

\* the sum of quantity x unit_price over the itemized entries, in 1/Scale^2
RECURSIVE SumOfLines(_)
SumOfLines(itemized) ==
    IF itemized = <<>> THEN 0
    ELSE itemized[1].quantity * itemized[1].unit_price
         + SumOfLines(Tail(itemized))

\* a record that is not a dict for an item the inventory has a key for
BadRecordOfPricedItem ==
    \E i \in 1..Len(shopping_list) :
        /\ ~IsDict(shopping_list[i].data)
        /\ \E k \in DOMAIN store_inventory :
               k \in {shopping_list[i].item,
                      shopping_list[i].item \o <<"s">>,
                      AllButLast(shopping_list[i].item)}

\* C15: when calculate_shopping_list_total returns, every item of the
\* shopping list is in exactly one of itemized and not_found and nothing
\* else is, each itemized entry carries the quantity of the list and a price
\* of the inventory, and total is the sum of quantity x unit_price over the
\* itemized entries rounded to 2 decimals; the call raises only on a record
\* that is not a dict, never on a missing item
C15_EveryItemPricedOrNotFound ==
    /\ Priced =>
          /\ \A i \in 1..Len(shopping_list) :
                 Cardinality(ItemizedAt(shopping_list[i].item))
                 + Cardinality(NotFoundAt(shopping_list[i].item)) = 1
          /\ Len(priced.itemized) + Len(priced.not_found) = Len(shopping_list)
          /\ \A k \in 1..Len(priced.itemized) :
                 \E i \in 1..Len(shopping_list) :
                     /\ shopping_list[i].item = priced.itemized[k].item
                     /\ shopping_list[i].data.quantity
                            = priced.itemized[k].quantity
                     /\ \E key \in DOMAIN store_inventory :
                            store_inventory[key].price
                                = priced.itemized[k].unit_price
                     /\ priced.itemized[k].total
                            = Round2Div(priced.itemized[k].quantity
                                        * priced.itemized[k].unit_price, Scale)
          /\ priced.total = Round2Div(SumOfLines(priced.itemized), Scale)
    /\ (client = "calculate_shopping_list_total" /\ spc = "raised")
          => BadRecordOfPricedItem

\* a list with a priced item and a missing item has been totalled
C15_Witness ==
    /\ Priced
    /\ Len(priced.itemized) = 1
    /\ Len(priced.not_found) = 1
    /\ priced.total > 0
    /\ \E k \in DOMAIN store_inventory :
           k = priced.itemized[1].item \o <<"s">>

\* the keys tried for an item, in the order of the claim
C16_Candidates(item) ==
    <<item, item \o <<"s">>>>
    \o (IF item # <<>> /\ item[Len(item)] = "s"
        THEN <<AllButLast(item)>> ELSE <<>>)

\* the positions of the candidates the inventory has
C16_Present(item) ==
    {c \in 1..Len(C16_Candidates(item)) :
        C16_Candidates(item)[c] \in DOMAIN store_inventory}

C16_Least(S) == CHOOSE c \in S : \A d \in S : c <= d

\* C16: calculate_shopping_list_total prices an item by the first key the
\* inventory has among the item verbatim, the item + 's' and, for an item
\* ending in 's', the item without its final 's'; the item is in not_found
\* exactly when the inventory has none of them
C16_LookupOrder ==
    Priced =>
        \A i \in 1..Len(shopping_list) :
            LET item == shopping_list[i].item IN
                IF C16_Present(item) = {}
                THEN NotFoundAt(item) # {}
                ELSE /\ NotFoundAt(item) = {}
                     /\ \A k \in ItemizedAt(item) :
                            priced.itemized[k].unit_price
                            = store_inventory[
                                  C16_Candidates(item)[C16_Least(C16_Present(item))]
                              ].price

\* 'peas' has been priced by 'peass' in an inventory that also has 'pea'
C16_Witness ==
    /\ Priced
    /\ <<"p", "e", "a">> \in DOMAIN store_inventory
    /\ <<"p", "e", "a", "s", "s">> \in DOMAIN store_inventory
    /\ <<"p", "e", "a", "s">> \notin DOMAIN store_inventory
    /\ \E k \in ItemizedAt(<<"p", "e", "a", "s">>) :
           priced.itemized[k].unit_price = KeyPrices[<<"p", "e", "a", "s", "s">>]

\* C17 (as stated): 'tomatoes' against an inventory whose only key is
\* 'tomato' is a hit, and 'tomato' against an inventory whose only key is
\* 'tomatoes' is a hit, in find_item_price and in
\* calculate_shopping_list_total
C17_PluralSingularHit ==
    LET pairs == {<<<<"t", "o", "m", "a", "t", "o", "e", "s">>, <<"t", "o", "m", "a", "t", "o">>>>,
                  <<<<"t", "o", "m", "a", "t", "o">>, <<"t", "o", "m", "a", "t", "o", "e", "s">>>>}
    IN \A p \in pairs :
          DOMAIN store_inventory = {p[2]} =>
             /\ (client = "find_item_price" /\ spc = "done" /\ wanted = p[1])
                    => found # NoValue
             /\ Priced => NotFoundAt(p[1]) = {}


\* compare_store_totals has returned
Compared == client = "compare_store_totals" /\ spc = "done"

\* the position at which a store name was first supplied
FirstSupplied(store_name) ==
    CHOOSE k \in 1..Len(store_list) :
        /\ store_list[k] = store_name
        /\ \A j \in 1..(k - 1) : store_list[j] # store_name

\* C18: the summaries compare_store_totals returns are ordered by total
\* ascending, the first being one of the minimum total, and stores of equal
\* totals keep the order in which their names were supplied
C18_OrderedByTotalStable ==
    Compared =>
        \A i, j \in 1..Len(ranking) :
            i < j =>
                /\ ~TotalLess(ranking[j].summary.total, ranking[i].summary.total)
                /\ ranking[i].summary.total = ranking[j].summary.total
                      => FirstSupplied(ranking[i].store)
                             < FirstSupplied(ranking[j].store)

\* two stores of the same total, not zero, have been compared
C18_Witness ==
    /\ Compared
    /\ Len(ranking) = 2
    /\ ranking[1].summary.total = ranking[2].summary.total
    /\ ranking[1].summary.total > 0
    /\ ranking[1].store = store_list[1]

\* the stores whose inventory cannot be loaded
Unloadable == {s \in StoreNames : files[s].kind \in {"missing", "broken"}}

\* C19 (as stated): the result of compare_store_totals has an entry for every
\* store name supplied, and every store whose inventory cannot be loaded has
\* total = +infinity, items_found = 0 and items_missing = len(shopping_list)
\* and comes after every store whose inventory loaded
C19_BadStoreRankedLast ==
    Compared =>
        /\ {ranking[k].store : k \in 1..Len(ranking)}
               = {store_list[k] : k \in 1..Len(store_list)}
        /\ \A k \in 1..Len(ranking) :
               ranking[k].store \in Unloadable =>
                   /\ ranking[k].summary
                          = [total |-> inf, items_found |-> 0,
                             items_missing |-> Len(shopping_list)]
                   /\ \A j \in 1..Len(ranking) :
                          ranking[j].store \notin Unloadable => j < k


\* ------------------------------------------------------------------------
\* Claims about the RecipeBook
\* ------------------------------------------------------------------------

\* this step is a call of add_recipe
C20_AddRecipeCalled ==
    /\ client = "RecipeBook"
    /\ book_calls' = book_calls + 1
    /\ book_op' = "add_recipe"

\* the argument of the call is a dict with the three required fields
C20_Complete ==
    /\ book_arg'.kind = "dict"
    /\ {"name", "ingredients", "directions"} \subseteq DOMAIN book_arg'.val

\* C20: add_recipe raises TypeError on a value that is not a dict, KeyError
\* on a dict without name, ingredients or directions, and ValueError on a
\* recipe whose name equals, ignoring case, the name of a recipe of the book;
\* every call that raises one of them leaves the recipes in memory and in
\* the file as they were
C20_RejectedRecipeChangesNothing ==
    [][C20_AddRecipeCalled =>
        /\ book_arg'.kind # "dict" => book_exc' = "TypeError"
        /\ (book_arg'.kind = "dict" /\ ~C20_Complete) => book_exc' = "KeyError"
        /\ (/\ C20_Complete
            /\ \E k \in 1..Len(book_recipes) :
                   Lower(book_recipes[k].name) = Lower(book_arg'.val.name))
              => book_exc' = "ValueError"
        /\ book_exc' \in {"TypeError", "KeyError", "ValueError"}
              => (book_recipes' = book_recipes /\ book_file' = book_file)
    ]_vars

\* a recipe whose name differs only in case from the one in the book has
\* been rejected, the book holding that one recipe in memory and in the file
C20_Witness ==
    /\ book_op = "add_recipe"
    /\ book_exc = "ValueError"
    /\ Len(book_recipes) = 1
    /\ book_file = book_recipes
    /\ book_recipes[1].name # book_arg.val.name


\* C21: in every state of a RecipeBook, whatever the calls made on it, a new
\* RecipeBook opened on the same path holds exactly the recipes, tags
\* included, that the book holds in memory: the file is what is in memory,
\* and constructing the book again changes nothing
C21_ReopenedBookHoldsTheSame ==
    /\ [](client = "RecipeBook" => book_file = book_recipes)
    /\ [][(client = "RecipeBook" /\ book_op' = "RecipeBook")
            => book_recipes' = book_recipes]_vars

\* a book has been opened again after a tag was added to one of its recipes
C21_Witness ==
    /\ client = "RecipeBook"
    /\ book_op = "RecipeBook"
    /\ \E k \in 1..Len(book_recipes) :
           TagsOf(book_recipes[k]) = <<Lower(Quick)>>

\* the recipes that carry a tag, whatever the letter case
C22_Carrying(tag) ==
    SelectSeq(book_recipes,
              LAMBDA r : \E i \in 1..Len(TagsOf(r)) :
                            Lower(TagsOf(r)[i]) = Lower(Strip(tag)))

\* C22 (as stated): every tag held by a recipe of the book is lowercase, and
\* search_by_tag returns every recipe carrying the tag, whatever the letter
\* case of the query or of the tag as it was supplied
C22_TagsLowercase ==
    client = "RecipeBook" =>
        /\ \A k \in 1..Len(book_recipes) :
               \A i \in 1..Len(TagsOf(book_recipes[k])) :
                   TagsOf(book_recipes[k])[i] = Lower(TagsOf(book_recipes[k])[i])
        /\ \A tag \in TagArgs :
               RecipeBook_search_by_tag(book_recipes, tag) = C22_Carrying(tag)

\* C27 (as stated): no two recipes of the book have names that are equal
\* ignoring case
C27_NamesUniqueIgnoringCase ==
    client = "RecipeBook" =>
        \A i, j \in 1..Len(book_recipes) :
            Lower(book_recipes[i].name) = Lower(book_recipes[j].name) => i = j


\* C23 (as stated): changing the dict get_recipe returned, its ingredients
\* included, never changes the recipes of the book, and an edit session that
\* ends with 'Cancel (discard changes)' leaves them as they were before it
C23_ReturnedCopyIsIndependent ==
    /\ [][(client = "edit"
            /\ book_op' \in {"add_ingredient", "remove_ingredient",
                              "clear_ingredients", "name"})
           => book_recipes' = book_recipes]_vars
    /\ [](client = "edit" /\ book_op = "cancel"
             => book_recipes = book_before)


\* ------------------------------------------------------------------------
\* Claims about the ShoppingList object
\* ------------------------------------------------------------------------

\* this step is a call of remove_item
C24_RemoveItemCalled ==
    /\ client = "ShoppingList"
    /\ Len(calls') = Len(calls) + 1
    /\ calls'[Len(calls')].op = "remove_item"

\* C24 (as stated): remove_item(n) returns True and removes the entry of n,
\* leaving every other entry as it was, whenever n is a key of the list, and
\* otherwise returns False and leaves the list unchanged
C24_RemovesExactlyTheNamedItem ==
    [][C24_RemoveItemCalled =>
        LET n == calls'[Len(calls')].name
            at == {k \in 1..Len(items) : items[k].item = n}
        IN IF at # {}
           THEN /\ result' = "True"
                /\ Len(items') = Len(items) - 1
                /\ items' = SelectSeq(items, LAMBDA e : e.item # n)
           ELSE /\ result' = "False"
                /\ items' = items
    ]_vars

\* C25 (as stated): a recipe name is in get_recipes() exactly when it is in
\* the recipes list of an item of the list, and no name is in it twice
C25_RecipesAreTheContributors ==
    client = "ShoppingList" =>
        /\ \A name \in {recipes[k] : k \in 1..Len(recipes)} :
               \E i \in 1..Len(items) : InSeq(name, items[i].recipes)
        /\ \A i \in 1..Len(items) :
               \A j \in 1..Len(items[i].recipes) :
                   InSeq(items[i].recipes[j], recipes)
        /\ \A j, k \in 1..Len(recipes) : recipes[j] = recipes[k] => j = k

\* this step is a call of compare_stores that raises RuntimeError
C26_CompareStoresRaised ==
    /\ client = "compare_stores"
    /\ cmp_op' = "compare_stores"
    /\ exc' = "RuntimeError"

\* C26 (as stated): compare_stores raises RuntimeError exactly when one of
\* the stores has no loaded inventory, and a call that raises leaves the
\* comparisons stored before it as they were: get_cheapest_store and
\* get_store_comparison answer after it as they did before it
C26_RaisingCallKeepsComparisons ==
    [][/\ (client = "compare_stores" /\ cmp_op' = "compare_stores") =>
              (exc' = "RuntimeError" <=>
                   \E k \in 1..Len(stores') :
                       store_objects[stores'[k]].inventory.kind = "None")
       /\ C26_CompareStoresRaised =>
              /\ ShoppingList_get_cheapest_store(store_comparisons')
                     = ShoppingList_get_cheapest_store(store_comparisons)
              /\ \A store_name \in ComparisonNames :
                     ShoppingList_get_store_comparison(store_comparisons',
                                                       store_name)
                         = ShoppingList_get_store_comparison(store_comparisons,
                                                             store_name)
    ]_vars

\* ------------------------------------------------------------------------
\* Claims about the two price lookups (under SpecStore)
\* ------------------------------------------------------------------------

\* calculate_shopping_list_total on a list of the one item wanted
C28_ListOfWanted ==
    calculate_shopping_list_total(
        <<[item |-> wanted,
           data |-> [quantity |-> Scale, unit |-> <<"c", "o", "u", "n", "t">>]]>>,
        store_inventory)

\* C28 (as stated): find_item_price returns a record for an item exactly
\* when calculate_shopping_list_total itemizes the item, and then both use
\* the same unit price
C28_PriceLookupsAgree ==
    (client = "find_item_price" /\ spc = "done") =>
        /\ found # NoValue <=> Len(C28_ListOfWanted.itemized) = 1
        /\ (found # NoValue /\ Len(C28_ListOfWanted.itemized) = 1) =>
               C28_ListOfWanted.itemized[1].unit_price = found.price

\* ------------------------------------------------------------------------
\* Claims about the two aggregators (under SpecAgree)
\* ------------------------------------------------------------------------

\* both aggregators have been given every recipe of recipe_list
C29_BothDone ==
    /\ client = "both"
    /\ pc = "done"
    /\ ri > Len(recipe_list.val)

\* C29 (as stated): compile_shopping_list and a ShoppingList given the same
\* recipes by add_recipe hold the same keys, and under each key the same
\* quantity, unit and list of recipes
C29_AggregatorsAgree ==
    C29_BothDone =>
        /\ {shopping[k].item : k \in 1..Len(shopping)}
               = {items[k].item : k \in 1..Len(items)}
        /\ \A j \in 1..Len(shopping) : \A k \in 1..Len(items) :
               shopping[j].item = items[k].item =>
                   /\ shopping[j].quantity = items[k].quantity
                   /\ shopping[j].unit = items[k].unit
                   /\ shopping[j].recipes = items[k].recipes

\* ------------------------------------------------------------------------
\* Claims about the session of the command line program (under SpecCli)
\* ------------------------------------------------------------------------

\* the history holds the lists created last, at most HistoryKept of them,
\* the most recent first, and its first entry is the current shopping list
C30_HistoryOfTheLastLists ==
    client = "cli" =>
        /\ Len(shopping_history)
               = IF clock < HistoryKept THEN clock ELSE HistoryKept
        /\ \A k \in 1..Len(shopping_history) :
               shopping_history[k].timestamp = clock - (k - 1)
        /\ shopping_history = <<>> <=> current_shopping_list = NoList
        /\ shopping_history # <<>> =>
               current_shopping_list = Dict(shopping_history[1].shopping_list)

\* this step hands the current list to a comparison or to an export
C30_CurrentListUsed ==
    /\ client = "cli"
    /\ used' # used
    /\ used'.by \in {"compare_prices_workflow", "export_current_list"}

\* C30: the history keeps only the last 5 lists, the most recent first;
\* its first entry is the list created last and is the current shopping
\* list, the one a price comparison and an export of the current list use
C30_HistoryKeepsLastFive ==
    /\ []C30_HistoryOfTheLastLists
    /\ [][C30_CurrentListUsed =>
              /\ shopping_history' # <<>>
              /\ used'.shopping_list = shopping_history'[1].shopping_list
              /\ used'.by = "export_current_list" =>
                     used'.recipe_names = shopping_history'[1].recipe_names
       ]_vars

\* a sixth list has been created, the first one has left the history, and
\* the current list has been exported
C30_Witness ==
    /\ client = "cli"
    /\ clock > HistoryKept
    /\ Len(shopping_history) = HistoryKept
    /\ shopping_history[HistoryKept].timestamp = 2
    /\ used.by = "export_current_list"
    /\ used.shopping_list = shopping_history[1].shopping_list

====
